---------------------------- MODULE Spec2Model ----------------------------
(***************************************************************************)
(* A model of the impression_affection_plugin:                             *)
(*   - the Outcome Context Relay: the four action_check event handlers of  *)
(*     src/plugin.py (ON_PLAN, POST_LLM, AFTER_LLM, POST_SEND_PRE_PROCESS) *)
(*     over the two process-wide dicts keyed by stream id;                 *)
(*   - the Update Orchestrator: ImpressionUpdateHandler.execute / handle   *)
(*     of src/plugin.py, one detached task per delivered turn.             *)
(* Strings are sequences of tokens; "sp" is a whitespace character and     *)
(* "MK" is the literal text that opens a tag (the bracket and the words   *)
(* "action check" with a full-width colon): the visible marker of a tag.   *)
(***************************************************************************)
EXTENDS Integers, Sequences, FiniteSets, TLC

\* ------------------------------------------------------------------ bounds
\* The clock stops at MaxTime (seconds).
MaxTime == 122
\* At most MaxDecisions decisions are parsed by Point B in one behaviour.
MaxDecisions == 2

\* --------------------------------------------------------- program constants
ACTION_CHECK_CONTEXT_TTL_SECONDS == 120
ACTION_CHECK_PENDING_TAG_TTL_SECONDS == 60

\* The clock advances by one of these steps: both sides of each TTL are met.
TickSteps == {60, 61}

Streams == {"s1", "s2"}

VARIABLES
    now,                  \* time.time()
    enabled,              \* plugin_config["action_check"]["enabled"]
    show_roll_result,     \* plugin_config["action_check"]["show_roll_result"]
    ctxByStream,          \* _ACTION_CHECK_CONTEXT_BY_STREAM
    pendingTagByStream,   \* _ACTION_CHECK_PENDING_TAG_BY_STREAM
    nextDecision,         \* history: the number the next parsed decision gets
    applied,              \* history: decision number -> times prepended
    lastOn,               \* history: stream -> label of its latest callback
    last                  \* history: the latest relay callback, with its
                          \*          input, its output and what it found

VARIABLES
    filter_mode,          \* weight_service.filter_mode (weight_filter.filter_mode)
    max_messages,         \* plugin_config["history"]["max_messages"]
    dbMessages,           \* the host's message store: id -> content long enough
    ledger,               \* ImpressionMessageRecord: (user_id, message_id) pairs
    tasks,                \* the detached _async_update_impression tasks
    userState,            \* UserImpression: user_id -> record
    msgState,             \* UserMessageState: user_id -> record
    seen                  \* history: task -> the ids the host had stored, and
                          \*          the qualifying ids not yet in the ledger,
                          \*          when the task fetched its first window

VARIABLES
    lastParse,            \* history: the text last handed to
                          \*          _parse_action_check_marker and its result
    permissions_admin,    \* plugin_config["permissions"]["admin"]
    lastCmd               \* history: the latest management command, its
                          \*          sender and whether send_text was called

updateVars == <<filter_mode, max_messages, dbMessages, ledger, tasks, userState,
               msgState>>

histVars == <<seen>>

cmdVars == <<lastParse, permissions_admin, lastCmd>>

relayVars == <<now, enabled, show_roll_result, ctxByStream, pendingTagByStream,
               nextDecision, applied, lastOn, last>>

\* ------------------------------------------------------------------ strings
IsSpace(ch) == ch = "sp"

RECURSIVE lstrip(_)
lstrip(s) == IF s # <<>> /\ IsSpace(Head(s)) THEN lstrip(Tail(s)) ELSE s

RECURSIVE rstrip(_)
rstrip(s) ==
    IF s # <<>> /\ IsSpace(s[Len(s)]) THEN rstrip(SubSeq(s, 1, Len(s) - 1)) ELSE s

strip(s) == lstrip(rstrip(s))

startswith(s, p) == Len(s) >= Len(p) /\ SubSeq(s, 1, Len(p)) = p

\* The literal that text.lstrip().startswith(...) tests in Point D.
TagMarker == <<"MK">>

\* f"<MK> {chance}% {zh_result}]"; zh_success and zh_fail are the two Chinese words.
format_action_check_tag(chance, result) ==
    LET zh_result == IF result = "success" THEN "zh_success" ELSE "zh_fail"
    IN  <<"MK", "sp", ToString(chance), "%", "sp", zh_result, "]">>

\* ---------------------------------------------------------------- dict helpers
Has(d, k) == k \in DOMAIN d
Pop(d, k) == [x \in (DOMAIN d) \ {k} |-> d[x]]
Put(d, k, v) == [x \in (DOMAIN d) \cup {k} |-> IF x = k THEN v ELSE d[x]]
EmptyDict == [x \in {} |-> 0]

\* ------------------------------------------------------------ marker parsing
\* A prompt is a sequence of lines.  A marker line holds the prefix
\* "ACTION_CHECK_JSON:"; atStart says the prefix starts the line (after
\* whitespace), braces says a {...} follows it on the line, and payload is the
\* text between the braces: json (malformed | nondict | dict), the value of
\* "interaction" as str() gives it, whether int() accepts "chance" and the
\* integer it gives, and "result" as a word with optional padding and case.
TextLine == [k |-> "text"]
SentinelLine == [k |-> "sentinel"]
Payload(json, interaction, chance_ok, chance, pad, upper, word) ==
    [json |-> json, interaction |-> interaction, chance_ok |-> chance_ok,
     chance |-> chance, result |-> [pad |-> pad, upper |-> upper, word |-> word]]
MarkerLine(atStart, braces, payload) ==
    [k |-> "marker", atStart |-> atStart, braces |-> braces, payload |-> payload]

IsMarker(line) == line.k = "marker"

\* str(...).strip().lower() of the "result" value
strip_lower(r) == r.word

Min(a, b) == IF a < b THEN a ELSE b
Max(a, b) == IF a > b THEN a ELSE b

SuccessWords == {"ok", "pass", "passed", "success"}
FailWords == {"fail", "failed", "failure"}

\* Mutant: the chance is taken over as the marker gives it.
clamp_chance_none(chance) == chance

\* chance = max(0, min(100, chance))
clamp_chance(chance) == Max(0, Min(100, chance))

\* The decision parsed from a prompt: <<>> (None) or <<decision>>.
parse_action_check_marker(text) ==
    LET matches == SelectSeq(text, LAMBDA l : IsMarker(l) /\ l.braces)
    IN  IF text = <<>> THEN <<>>
        ELSE IF matches = <<>> THEN <<>>
        ELSE LET payload == matches[Len(matches)].payload
                 interaction == strip(payload.interaction)
                 result == strip_lower(payload.result)
             IN  IF payload.json # "dict" THEN <<>>
                 ELSE IF ~payload.chance_ok THEN <<>>
                 ELSE IF result \notin (SuccessWords \cup FailWords) THEN <<>>
                 ELSE IF interaction = <<>> THEN <<>>
                 ELSE << [interaction |-> interaction,
                          chance |-> clamp_chance(payload.chance),
                          result |-> IF result \in SuccessWords
                                     THEN "success" ELSE "fail"] >>

\* re.sub(r"(?m)^\s*ACTION_CHECK_JSON:.*(?:\r?\n)?", "", text)
strip_action_check_marker_lines(text) ==
    SelectSeq(text, LAMBDA l : ~(IsMarker(l) /\ l.atStart))

\* The block Point B appends for the replyer.
ResultBlock(d) ==
    [k |-> "result_block", interaction |-> d.interaction, chance |-> d.chance,
     zh_result |-> IF d.result = "success" THEN "zh_success" ELSE "zh_fail"]

\* The block Point A appends for the planner (it holds the sentinel).
ProtocolBlock(show) == [k |-> "protocol_block", show |-> show]

\* Mutant: the sentinel is never found in a prompt.
HasSentinel_blind(text) == FALSE

\* _ACTION_CHECK_SENTINEL in message.llm_prompt
HasSentinel(text) ==
    \E i \in 1..Len(text) :
        text[i].k \in {"sentinel", "result_block", "protocol_block"}


\* --------------------------------------------------------------- input sets
\* Payloads of the marker lines of the prompts handed to Point B.
GoodPayload(chance, word) == Payload("dict", <<"h", "u", "g">>, TRUE, chance, FALSE, FALSE, word)
BadResultPayload == Payload("dict", <<"h", "u", "g">>, TRUE, 50, FALSE, FALSE, "maybe")

RelayPrompts ==
    { <<TextLine>>,
      <<TextLine, MarkerLine(TRUE, TRUE, GoodPayload(80, "fail"))>>,
      <<MarkerLine(TRUE, TRUE, BadResultPayload), TextLine,
        MarkerLine(TRUE, TRUE, GoodPayload(130, "ok"))>>,
      <<TextLine, MarkerLine(TRUE, TRUE, BadResultPayload)>> }

PlannerPrompts == { <<>>, <<TextLine>>, <<TextLine, SentinelLine>> }

\* Outgoing message segments: seg.type, whether seg.data is a str, seg.data.
SegText(t) == [type |-> "text", isStr |-> TRUE, data |-> t]
SegImage == [type |-> "image", isStr |-> TRUE, data |-> <<"b64">>]
SegOdd == [type |-> "text", isStr |-> FALSE, data |-> <<>>]

T_hi == <<"h", "i">>
T_trail == <<"h", "i", "sp">>
T_marked == <<"sp", "MK", "x">>

Messages ==
    { <<>>,
      <<SegImage>>,
      <<SegText(T_hi)>>,
      <<SegImage, SegOdd, SegText(T_trail), SegText(T_hi)>>,
      <<SegText(T_marked), SegText(T_hi)>> }

\* ------------------------------------------------------------ relay: state
\* The first two members of the tuple a handler returns to the host
\* (success, continue processing), as every return statement gives them.
continue_default == [success |-> TRUE, continue |-> TRUE]

\* Mutant: a handler lets an exception go on to the host.
except_return_reraise == [success |-> FALSE, continue |-> FALSE]

\* What the `except Exception` clause of a handler returns.
except_return == continue_default

NoCallback ==
    [op |-> "none", stream |-> "", ok |-> FALSE, n |-> 0, inMsg |-> <<>>,
     outMsg |-> <<>>, prev |-> "other", ctxExpired |-> FALSE,
     tagExpired |-> FALSE, hadCtx |-> FALSE, hadTag |-> FALSE,
     raised |-> FALSE, ret |-> continue_default]

\* Whether the entry of a stream is older than its TTL at the time `now`.
CtxExpired(c) ==
    /\ Has(ctxByStream, c)
    /\ (now - ctxByStream[c].created_at) > ACTION_CHECK_CONTEXT_TTL_SECONDS
TagExpired(c) ==
    /\ Has(pendingTagByStream, c)
    /\ (now - pendingTagByStream[c].ts) > ACTION_CHECK_PENDING_TAG_TTL_SECONDS

\* Mutant: the eviction sweeps the expired contexts of every stream.
clean_expired_ctx_sweeps(stream_id) ==
    [k \in {x \in DOMAIN ctxByStream : ~CtxExpired(x)} |-> ctxByStream[k]]

\* Mutant: a context is never evicted by age.
clean_expired_ctx_never(stream_id) == ctxByStream

\* _clean_expired_action_check_state, the context dict after it
clean_expired_ctx(stream_id) ==
    IF CtxExpired(stream_id) THEN Pop(ctxByStream, stream_id) ELSE ctxByStream

\* Mutant: a pending tag is never evicted by age.
clean_expired_tag_never(stream_id) == pendingTagByStream

\* _clean_expired_action_check_state, the pending-tag dict after it
clean_expired_tag(stream_id) ==
    IF TagExpired(stream_id) THEN Pop(pendingTagByStream, stream_id)
    ELSE pendingTagByStream

\* The record of a callback on stream c: its input and output, whether it
\* acted (A appended, B parsed, C stashed, D prepended), the number n of
\* segments it changed, the label of the callback before it on c, and, when
\* it went as far as _clean_expired_action_check_state (looked), what it
\* found there: an entry older than its TTL, an entry within its TTL.
Callback(op, c, looked, ok, n, inMsg, outMsg) ==
    [op |-> op, stream |-> c, ok |-> ok, n |-> n, inMsg |-> inMsg,
     outMsg |-> outMsg, prev |-> lastOn[c],
     ctxExpired |-> looked /\ CtxExpired(c),
     tagExpired |-> looked /\ TagExpired(c),
     hadCtx |-> looked /\ Has(ctxByStream, c) /\ ~CtxExpired(c),
     hadTag |-> looked /\ Has(pendingTagByStream, c) /\ ~TagExpired(c),
     raised |-> FALSE, ret |-> continue_default]

\* time.time() moves on.
Tick ==
    /\ \E d \in TickSteps : now + d <= MaxTime /\ now' = now + d
    /\ UNCHANGED <<enabled, show_roll_result, ctxByStream, pendingTagByStream,
                   nextDecision, applied, lastOn, last>>

\* ------------------------------------------------- relay: the four handlers
\* Mutant: a handler that returns early still forgets the stream's context.
PassThrough_forgets(op, c, inMsg) ==
    /\ last' = Callback(op, c, FALSE, FALSE, 0, inMsg, inMsg)
    /\ lastOn' = [lastOn EXCEPT ![c] = "other"]
    /\ ctxByStream' = Pop(ctxByStream, c)
    /\ UNCHANGED <<now, enabled, show_roll_result,
                   pendingTagByStream, nextDecision, applied>>

\* A handler that returns before it reads or writes the dicts.
PassThrough(op, c, inMsg) ==
    /\ last' = Callback(op, c, FALSE, FALSE, 0, inMsg, inMsg)
    /\ lastOn' = [lastOn EXCEPT ![c] = "other"]
    /\ UNCHANGED <<now, enabled, show_roll_result, ctxByStream,
                   pendingTagByStream, nextDecision, applied>>

\* Point A: ActionCheckPlannerPromptHandler.execute (ON_PLAN)
PointA(c, prompt) ==
    IF ~enabled \/ prompt = <<>> \/ HasSentinel(prompt)
    THEN PassThrough("A", c, prompt)
    ELSE
        /\ last' = Callback("A", c, FALSE, TRUE, 0, prompt,
                            prompt \o <<ProtocolBlock(show_roll_result)>>)
        /\ lastOn' = [lastOn EXCEPT ![c] = "other"]
        /\ UNCHANGED <<now, enabled, show_roll_result, ctxByStream,
                       pendingTagByStream, nextDecision, applied>>

\* Mutant: a parse failure leaves the context of an earlier turn in place.
drop_stale_ctx_kept(stream_id) == clean_expired_ctx(stream_id)

\* Point B, the context dict after a parse failure (plugin.py line 241)
drop_stale_ctx(stream_id) == Pop(clean_expired_ctx(stream_id), stream_id)

\* Mutant: a context already stored for the stream is kept.
store_context_first_wins(ctxs, stream_id, ctx) ==
    IF Has(ctxs, stream_id) THEN ctxs ELSE Put(ctxs, stream_id, ctx)

\* _ACTION_CHECK_CONTEXT_BY_STREAM[stream_id] = parsed (line 245)
store_context(ctxs, stream_id, ctx) == Put(ctxs, stream_id, ctx)

\* Point B: ActionCheckPostLLMHandler.execute (POST_LLM)
PointB(c, prompt) ==
    IF ~enabled \/ prompt = <<>> THEN PassThrough("B", c, prompt)
    ELSE LET parsed == parse_action_check_marker(prompt)
         IN  IF parsed = <<>> THEN
                 /\ ctxByStream' = drop_stale_ctx(c)
                 /\ pendingTagByStream' = clean_expired_tag(c)
                 /\ last' = Callback("B", c, TRUE, FALSE, 0, prompt, prompt)
                 /\ lastOn' = [lastOn EXCEPT ![c] = "Bfail"]
                 /\ UNCHANGED <<now, enabled, show_roll_result, nextDecision, applied>>
             ELSE
                 /\ nextDecision <= MaxDecisions
                 /\ ctxByStream' =
                        store_context(clean_expired_ctx(c), c,
                            [stream_id |-> c,
                             interaction |-> parsed[1].interaction,
                             chance |-> parsed[1].chance,
                             result |-> parsed[1].result,
                             created_at |-> now,
                             decision |-> nextDecision])
                 /\ pendingTagByStream' = clean_expired_tag(c)
                 /\ nextDecision' = nextDecision + 1
                 /\ applied' = Put(applied, nextDecision, 0)
                 /\ last' = Callback("B", c, TRUE, TRUE, 0, prompt,
                                     strip_action_check_marker_lines(prompt)
                                         \o <<ResultBlock(parsed[1])>>)
                 /\ lastOn' = [lastOn EXCEPT ![c] = "Bok"]
                 /\ UNCHANGED <<now, enabled, show_roll_result>>

\* Point C: ActionCheckAfterLLMHandler.execute (AFTER_LLM)
PointC(c) ==
    IF ~enabled \/ ~show_roll_result THEN PassThrough("C", c, <<>>)
    ELSE LET ctxs == clean_expired_ctx(c)
         IN  /\ ctxByStream' = ctxs
             /\ IF ~Has(ctxs, c) THEN
                    /\ pendingTagByStream' = clean_expired_tag(c)
                    /\ last' = Callback("C", c, TRUE, FALSE, 0, <<>>, <<>>)
                    /\ lastOn' = [lastOn EXCEPT ![c] =
                                      IF lastOn[c] = "Bfail" THEN "BfailC" ELSE "other"]
                ELSE
                    /\ pendingTagByStream' =
                           Put(clean_expired_tag(c), c,
                               [tag |-> format_action_check_tag(ctxs[c].chance,
                                                                ctxs[c].result),
                                ts |-> now,
                                decision |-> ctxs[c].decision])
                    /\ last' = Callback("C", c, TRUE, TRUE, 0, <<>>, <<>>)
                    /\ lastOn' = [lastOn EXCEPT ![c] =
                                      IF lastOn[c] = "Bok" THEN "BokC" ELSE "other"]
             /\ UNCHANGED <<now, enabled, show_roll_result, nextDecision, applied>>

\* Mutant: the loop takes the first segment whatever its type.
TextBearing_any(seg) == TRUE

\* The segments Point D's loop looks at: type "text" with a str payload.
TextBearing(seg) == seg.type = "text" /\ seg.isStr

\* Point D's loop (lines 332-346): the index of the segment it stops at, or 0.
first_text_segment(segs) ==
    IF \E i \in 1..Len(segs) : TextBearing(segs[i])
    THEN CHOOSE i \in 1..Len(segs) :
             /\ TextBearing(segs[i])
             /\ \A j \in 1..(i - 1) : ~TextBearing(segs[j])
    ELSE 0

\* Mutant: the guard against a second application never fires.
already_tagged_never(text) == FALSE

\* text.lstrip().startswith(<MK>)
already_tagged(text) == startswith(lstrip(text), TagMarker)

\* Mutant: the tag is glued to the text without the space.
prefixed_glued(tag, text) == rstrip(tag \o text)

\* f"{tag} {text}".rstrip()
prefixed(tag, text) == rstrip(tag \o <<"sp">> \o text)

\* The segment list after the loop has prefixed the segment at index i.
prefix_segments(segs, i, tag) ==
    [segs EXCEPT ![i] = [@ EXCEPT !.data = prefixed(tag, @)]]

\* Mutant: Point D leaves the pending tag in the dict.
clear_pending_kept(tags, stream_id) == tags

\* The pops that end Point D (lines 339-340 and 353-354).
clear_pending(tags, stream_id) == Pop(tags, stream_id)
clear_context(ctxs, stream_id) == Pop(ctxs, stream_id)

\* The number of segments two lists of equal length differ in.
Changed(a, b) == Cardinality({i \in 1..Len(a) : a[i] # b[i]})

\* Point D: ActionCheckPostSendPrefixHandler.execute (POST_SEND_PRE_PROCESS)
PointD(c, segs) ==
    IF ~enabled \/ ~show_roll_result THEN PassThrough("D", c, segs)
    ELSE LET ctxs == clean_expired_ctx(c)
             tags == clean_expired_tag(c)
             i == first_text_segment(segs)
         IN  IF ~Has(tags, c) \/ segs = <<>> \/ i = 0 THEN
                 /\ ctxByStream' = ctxs
                 /\ pendingTagByStream' = tags
                 /\ last' = Callback("D", c, TRUE, FALSE, 0, segs, segs)
                 /\ lastOn' = [lastOn EXCEPT ![c] = "other"]
                 /\ UNCHANGED <<now, enabled, show_roll_result, nextDecision, applied>>
             ELSE IF already_tagged(segs[i].data) THEN
                 /\ ctxByStream' = clear_context(ctxs, c)
                 /\ pendingTagByStream' = clear_pending(tags, c)
                 /\ last' = Callback("D", c, TRUE, FALSE, 0, segs, segs)
                 /\ lastOn' = [lastOn EXCEPT ![c] = "other"]
                 /\ UNCHANGED <<now, enabled, show_roll_result, nextDecision, applied>>
             ELSE LET out == prefix_segments(segs, i, tags[c].tag)
                  IN  /\ ctxByStream' = clear_context(ctxs, c)
                      /\ pendingTagByStream' = clear_pending(tags, c)
                      /\ applied' = Put(applied, tags[c].decision,
                                        applied[tags[c].decision] + 1)
                      /\ last' = Callback("D", c, TRUE, TRUE, Changed(segs, out), segs, out)
                      /\ lastOn' = [lastOn EXCEPT ![c] = "Dap"]
                      /\ UNCHANGED <<now, enabled, show_roll_result, nextDecision>>

\* ToggleActionCheckCommand.execute with state "on" or "off"
ToggleActionCheck(state) ==
    /\ enabled' = (state = "on")
    /\ UNCHANGED <<now, show_roll_result, ctxByStream, pendingTagByStream,
                   nextDecision, applied, lastOn, last>>

\* ToggleActionCheckShowResultCommand.execute with state "on" or "off"
ToggleActionCheckShowResult(state) ==
    /\ show_roll_result' = (state = "on")
    /\ UNCHANGED <<now, enabled, ctxByStream, pendingTagByStream,
                   nextDecision, applied, lastOn, last>>

\* A relay handler (op: A, B, C or D) whose body raises at its first
\* statement, the read of the configuration: the except clause returns.
HandlerRaises(op, c) ==
    /\ last' = [NoCallback EXCEPT !.op = op, !.stream = c, !.prev = lastOn[c],
                                  !.raised = TRUE, !.ret = except_return]
    /\ lastOn' = [lastOn EXCEPT ![c] = "other"]
    /\ UNCHANGED <<now, enabled, show_roll_result, ctxByStream,
                   pendingTagByStream, nextDecision, applied>>

\* A relay handler that is handed no message: the first guard returns.
MissingMessage(op) ==
    /\ last' = [NoCallback EXCEPT !.op = op]
    /\ UNCHANGED <<now, enabled, show_roll_result, ctxByStream,
                   pendingTagByStream, nextDecision, applied, lastOn>>

\* The host sends the message Point D last returned through Point D again.
Resend(c) ==
    /\ last.op = "D"
    /\ last.stream = c
    /\ PointD(c, last.outMsg)

\* The host presents the prompt Point A last returned to Point A again.
Replan(c) ==
    /\ last.op = "A"
    /\ last.stream = c
    /\ PointA(c, last.outMsg)

\* The callbacks of one conversation.
OneStream == {"s1"}

\* ------------------------------------------------------- update pipeline
\* The services behind ImpressionUpdateHandler (MessageService, WeightService,
\* TextImpressionService, AffectionService) follow their contracts in the
\* design document; handle() itself follows src/plugin.py.  A call that the
\* handler awaits ends a step: other tasks run before it returns.

\* At most MaxTasks turns are delivered in one behaviour.
MaxTasks == 2
\* The messages the host may store (a larger id is a later message).
MessageIds == {1, 2}

\* history.max_messages when the configuration does not set it, and
\* weight_filter.high/medium_weight_threshold
default_max_messages == 20
high_threshold == 70
medium_threshold == 40

\* affection_increment.*, and the score bounds, in half points
friendly_increment == 4
neutral_increment == 1
negative_increment == -6
ScoreFloor == 0
ScoreCeiling == 200
DefaultScore == 100

FilterModes == {"disabled", "selective", "balanced", "strict"}
WeightScores == {39, 40, 69, 70}
Users == {"U1"}
NoUser == ""

\* The turns the host may deliver: a turn of a user about a message, a turn
\* whose user cannot be resolved, and a turn without text.
Turns ==
    {[user_id |-> u, m |-> m, content |-> TRUE] : u \in Users, m \in MessageIds}
        \cup {[user_id |-> NoUser, m |-> 1, content |-> TRUE]}
        \cup {[user_id |-> u, m |-> 1, content |-> FALSE] : u \in Users}

\* A message id: the host's own id, or f"temp_{user_id}_{int(timestamp)}".
MainId(m) == [kind |-> "main", n |-> m]
TempId(m) == [kind |-> "temp", n |-> m]
NoId == [kind |-> "none", n |-> 0]

\* db_service.get_main_message_id, then the fallback of lines 561-564
resolve_message_id(m) == IF m \in DOMAIN dbMessages THEN MainId(m) ELSE TempId(m)

\* message_service.is_message_processed
is_message_processed(user_id, message_id) == <<user_id, message_id>> \in ledger

\* message_service.record_processed_message for every id of a window
record_processed_messages(user_id, ids) == ledger \cup {<<user_id, i>> : i \in ids}

\* The n largest members of a set of numbers.
RECURSIVE MostRecent(_, _)
MostRecent(S, n) ==
    IF n = 0 \/ S = {} THEN {}
    ELSE LET top == CHOOSE x \in S : \A y \in S : y <= x
         IN  {top} \cup MostRecent(S \ {top}, n - 1)

\* weight_service.get_filtered_messages: the ids of the window; the context
\* text is empty exactly when no turn qualifies.
get_filtered_messages(user_id, limit) ==
    {MainId(m) : m \in MostRecent({x \in DOMAIN dbMessages :
                                      /\ dbMessages[x]
                                      /\ ~is_message_processed(user_id, MainId(x))},
                                  limit)}

\* Mutant: the gate lets a turn through whose evaluation failed.
should_update_impression_lax(history_empty, weight_success, mode, weight_score) ==
    IF history_empty THEN FALSE
    ELSE IF mode = "disabled" THEN TRUE
    ELSE IF mode = "selective" THEN weight_score >= high_threshold
    ELSE IF mode = "balanced" THEN weight_score >= medium_threshold
    ELSE FALSE

\* Mutant: the thresholds are compared with > instead of >=.
should_update_impression_above(history_empty, weight_success, mode, weight_score) ==
    IF history_empty THEN FALSE
    ELSE IF weight_success THEN
        IF mode = "disabled" THEN TRUE
        ELSE IF mode = "selective" THEN weight_score > high_threshold
        ELSE IF mode = "balanced" THEN weight_score > medium_threshold
        ELSE FALSE
    ELSE FALSE

\* Mutant: a mode that is none of the three named ones lets every turn through.
should_update_impression_open(history_empty, weight_success, mode, weight_score) ==
    IF history_empty THEN FALSE
    ELSE IF weight_success THEN
        IF mode = "disabled" THEN TRUE
        ELSE IF mode = "selective" THEN weight_score >= high_threshold
        ELSE IF mode = "balanced" THEN weight_score >= medium_threshold
        ELSE TRUE
    ELSE FALSE

\* The gating decision of handle(), lines 612-635
should_update_impression(history_empty, weight_success, mode, weight_score) ==
    IF history_empty THEN FALSE
    ELSE IF weight_success THEN
        IF mode = "disabled" THEN TRUE
        ELSE IF mode = "selective" THEN weight_score >= high_threshold
        ELSE IF mode = "balanced" THEN weight_score >= medium_threshold
        ELSE FALSE
    ELSE FALSE

\* utils.get_affection_level: the level label as a bucket of the score
get_affection_level(score) == score \div 40

Increment(class) ==
    IF class = "friendly" THEN friendly_increment
    ELSE IF class = "neutral" THEN neutral_increment
    ELSE negative_increment

NewUser == [profile |-> 0, score |-> DefaultScore,
            level |-> get_affection_level(DefaultScore), message_count |-> 0]

GetOrCreate(d, user_id) == IF Has(d, user_id) THEN d[user_id] ELSE NewUser

\* affection_service.update_affection, the record it writes for a class
apply_affection(user_id, class) ==
    LET u == GetOrCreate(userState, user_id)
        sc == Max(ScoreFloor, Min(ScoreCeiling, u.score + Increment(class)))
    IN  Put(userState, user_id,
            [u EXCEPT !.score = sc, !.level = get_affection_level(sc),
                      !.message_count = @ + 1])

\* text_impression_service.build_impression, the record it writes (the
\* profile text is named by the task that wrote it)
apply_impression(user_id, t) ==
    Put(userState, user_id, [GetOrCreate(userState, user_id) EXCEPT !.profile = t])

NewMessageState == [last_message_id |-> NoId, total_messages |-> 0,
                    impression_updated |-> FALSE, affection_updated |-> FALSE]

GetOrCreateState(user_id) ==
    IF Has(msgState, user_id) THEN msgState[user_id] ELSE NewMessageState

\* message_service.update_message_state
update_message_state(user_id, message_id, impression_updated, affection_updated) ==
    Put(msgState, user_id,
        [last_message_id |-> message_id,
         total_messages |-> GetOrCreateState(user_id).total_messages + 1,
         impression_updated |-> impression_updated,
         affection_updated |-> affection_updated])

\* No task has fetched a window.
NoneSeen == [t \in 1..MaxTasks |-> [stored |-> {}, unprocessed |-> {}]]

\* The host stores message m, after every earlier one; long says it passes
\* the window's content filter.
Arrive(m, long) ==
    /\ m \notin DOMAIN dbMessages
    /\ \A x \in MessageIds : x < m => x \in DOMAIN dbMessages
    /\ dbMessages' = Put(dbMessages, m, long)
    /\ UNCHANGED <<filter_mode, max_messages, ledger, tasks, userState, msgState>>

\* Mutant: execute awaits the orchestration instead of launching it, so the
\* host has no reply while the orchestration is pending.
NewTask_awaited(user_id, m, content) ==
    [user_id |-> user_id, m |-> m, content |-> content, pc |-> "start",
     reply |-> <<>>,
     outcome |-> "running", message_id |-> NoId, window |-> {}, latest |-> {},
     weight_success |-> FALSE, weight_score |-> 0,
     should_update_impression |-> FALSE, impression_updated |-> FALSE,
     history_empty |-> FALSE, evaluated |-> FALSE,
     profile_runs |-> 0, score_runs |-> 0]

\* The task execute launches with asyncio.create_task, and what execute has
\* returned to the host by then (reply).
\* The locals of a handle() call that has not started, and its history:
\* the ids of its first window, whether that window was empty
\* (history_empty), whether it called the evaluator, and how often it called
\* each derivation path.
NewTask(user_id, m, content) ==
    [user_id |-> user_id, m |-> m, content |-> content, pc |-> "start",
     reply |-> <<continue_default>>,
     outcome |-> "running", message_id |-> NoId, window |-> {}, latest |-> {},
     weight_success |-> FALSE, weight_score |-> 0,
     should_update_impression |-> FALSE, impression_updated |-> FALSE,
     history_empty |-> FALSE, evaluated |-> FALSE,
     profile_runs |-> 0, score_runs |-> 0]

\* ImpressionUpdateHandler.execute: asyncio.create_task and return
Deliver(user_id, m, content) ==
    /\ Len(tasks) < MaxTasks
    /\ tasks' = Append(tasks, NewTask(user_id, m, content))
    /\ UNCHANGED <<filter_mode, max_messages, dbMessages, ledger, userState, msgState>>

\* ImpressionUpdateHandler.execute when _ensure_services_initialized raises:
\* no task is launched and the except clause returns.
LaunchFails ==
    /\ last' = [NoCallback EXCEPT !.op = "U", !.raised = TRUE,
                                  !.ret = except_return]
    /\ UNCHANGED <<now, enabled, show_roll_result, ctxByStream,
                   pendingTagByStream, nextDecision, applied, lastOn>>

\* Mutant: an exception in one orchestration cancels the others.
Finish_cancels_all(t, outcome) ==
    [x \in DOMAIN tasks |->
        IF x = t \/ (outcome = "failed" /\ tasks[x].pc # "done")
        THEN [tasks[x] EXCEPT !.pc = "done",
                              !.outcome = IF x = t THEN outcome ELSE "failed",
                              !.latest = {}, !.weight_success = FALSE,
                              !.weight_score = 0,
                              !.should_update_impression = FALSE,
                              !.impression_updated = FALSE]
        ELSE tasks[x]]

\* Mutant: an orchestration that meets an exception never returns.
Finish_hangs(t, outcome) ==
    IF outcome = "failed" THEN [tasks EXCEPT ![t].pc = "hung"]
    ELSE [tasks EXCEPT ![t].pc = "done", ![t].outcome = outcome, ![t].latest = {},
                       ![t].weight_success = FALSE, ![t].weight_score = 0,
                       ![t].should_update_impression = FALSE,
                       ![t].impression_updated = FALSE]

\* The call has returned: its locals are gone, its history stays.
Finish(t, outcome) ==
    [tasks EXCEPT ![t].pc = "done", ![t].outcome = outcome, ![t].latest = {},
                  ![t].weight_success = FALSE, ![t].weight_score = 0,
                  ![t].should_update_impression = FALSE,
                  ![t].impression_updated = FALSE]

\* Mutant: the ids of the window are not marked when they are fetched.
mark_window_later(user_id, message_ids_in_context) == ledger

\* The ledger after every id of the window is recorded (lines 586-589).
mark_window(user_id, message_ids_in_context) ==
    record_processed_messages(user_id, message_ids_in_context)

\* Mutant: the evaluator is asked about an empty window too.
evaluation_skipped_never(window) == FALSE

\* The evaluator is not called on an empty window (lines 597-598).
evaluation_skipped(window) == window = {}

\* Mutant: a turn without a subject goes on with the empty user id.
subject_missing_never(user_id) == FALSE

\* `if not user_id` (lines 520-523): no subject could be resolved.
subject_missing(user_id) == user_id = NoUser

\* Mutant: the ledger is not consulted for the turn's own message id.
already_processed_ignored(user_id, message_id) == FALSE

\* The ledger check of the turn's own message id (lines 570-574)
already_processed(user_id, message_id) == is_message_processed(user_id, message_id)

\* handle() from its start to its first await (lines 432-604, or 432-664
\* when the evaluation is skipped)
Start(t) ==
    /\ tasks[t].pc = "start"
    /\ LET user_id == tasks[t].user_id
           message_id == resolve_message_id(tasks[t].m)
           window == get_filtered_messages(user_id, max_messages)
       IN  IF subject_missing(user_id) THEN
               /\ tasks' = Finish(t, "rejected")
               /\ UNCHANGED ledger
           ELSE IF ~tasks[t].content THEN
               /\ tasks' = Finish(t, "no_content")
               /\ UNCHANGED ledger
           ELSE IF already_processed(user_id, message_id) THEN
               /\ tasks' = [Finish(t, "skipped") EXCEPT ![t].message_id = message_id]
               /\ UNCHANGED ledger
           ELSE
               /\ ledger' = mark_window(user_id, window)
               /\ tasks' = [tasks EXCEPT
                      ![t].message_id = message_id,
                      ![t].window = window,
                      ![t].history_empty = (window = {}),
                      ![t].evaluated = ~evaluation_skipped(window),
                      ![t].score_runs = IF evaluation_skipped(window) THEN 1 ELSE 0,
                      ![t].pc = IF evaluation_skipped(window) THEN "score" ELSE "eval"]
    /\ UNCHANGED <<filter_mode, max_messages, dbMessages, userState, msgState>>

\* What weight_service.evaluate_message gives back, or that it raised.
EvalResults ==
    {[kind |-> "ok", score |-> sc] : sc \in WeightScores}
        \cup {[kind |-> "fail", score |-> 0], [kind |-> "raise", score |-> 0]}

\* handle() from the return of evaluate_message to its next await
\* (lines 602-647, or 602-664 when the gate is closed)
EvalReturn(t, r) ==
    /\ tasks[t].pc = "eval"
    /\ IF r.kind = "raise" THEN tasks' = Finish(t, "failed")
       ELSE LET go == should_update_impression(tasks[t].history_empty, r.kind = "ok",
                                                filter_mode, r.score)
            IN  tasks' = [tasks EXCEPT
                    ![t].weight_success = (r.kind = "ok"),
                    ![t].weight_score = r.score,
                    ![t].should_update_impression = go,
                    ![t].latest = IF go THEN get_filtered_messages(tasks[t].user_id,
                                                                   max_messages)
                                  ELSE {},
                    ![t].profile_runs = IF go THEN 1 ELSE 0,
                    ![t].score_runs = IF go THEN 0 ELSE 1,
                    ![t].pc = IF go THEN "profile" ELSE "score"]
    /\ UNCHANGED <<filter_mode, max_messages, dbMessages, ledger, userState, msgState>>

\* Mutant: an exception of the Profile path leaves handle().
after_profile_propagates(r) == IF r = "raise" THEN "done" ELSE "score"

\* Where handle() goes after build_impression returned r or raised: the
\* try/except of lines 638-655 ends at the Score path in every case.
after_profile(r) == "score"

\* handle() from the return of build_impression to the await of
\* update_affection (lines 645-664); r: ok, fail (success false) or raise
ProfileReturn(t, r) ==
    /\ tasks[t].pc = "profile"
    /\ userState' = IF r = "ok" THEN apply_impression(tasks[t].user_id, t)
                    ELSE userState
    /\ tasks' = IF after_profile(r) = "score"
                THEN [tasks EXCEPT ![t].impression_updated = (r = "ok"),
                                   ![t].score_runs = 1,
                                   ![t].pc = "score"]
                ELSE Finish(t, "failed")
    /\ UNCHANGED <<filter_mode, max_messages, dbMessages, ledger, msgState>>

\* Mutant: the summary is written only when a derivation path succeeded.
persist_summary_on_success(user_id, message_id, impression_updated, affection_updated) ==
    IF impression_updated \/ affection_updated
    THEN update_message_state(user_id, message_id, impression_updated,
                              affection_updated)
    ELSE msgState

\* The message-state summary after handle() has written it (lines 673-676).
persist_summary(user_id, message_id, impression_updated, affection_updated) ==
    update_message_state(user_id, message_id, impression_updated, affection_updated)

\* handle() from the return of update_affection to its end (lines 662-681);
\* r: the class the service found, fail (success false) or raise
ScoreReturn(t, r) ==
    /\ tasks[t].pc = "score"
    /\ LET done == r \in {"friendly", "neutral", "negative"}
       IN  /\ userState' = IF done THEN apply_affection(tasks[t].user_id, r)
                           ELSE userState
           /\ msgState' = persist_summary(tasks[t].user_id, tasks[t].message_id,
                                          tasks[t].impression_updated, done)
           /\ tasks' = Finish(t, "settled")
    /\ UNCHANGED <<filter_mode, max_messages, dbMessages, ledger>>

\* The update pipeline before any turn, with the default filter mode.
UpdateIdle ==
    /\ filter_mode = "selective"
    /\ max_messages = default_max_messages
    /\ seen = NoneSeen
    /\ dbMessages = EmptyDict
    /\ ledger = {}
    /\ tasks = <<>>
    /\ userState = EmptyDict
    /\ msgState = EmptyDict

\* No text has been parsed apart from the relay, no command has been issued
\* and nobody is an administrator.
NoParse == [text |-> <<>>, decision |-> <<>>]
NoCommand == [cmd |-> "none", platform |-> "", user_id |-> "", arg |-> "",
              replied |-> FALSE, success |-> TRUE]
NoAdmins == [isList |-> TRUE, items |-> {}]

CommandsIdle ==
    /\ lastParse = NoParse
    /\ permissions_admin = NoAdmins
    /\ lastCmd = NoCommand

vars == <<relayVars, updateVars, cmdVars, histVars>>

\* ----------------------------------------------------- management commands
\* The sender of a command: message_info.platform and user_info.user_id, as
\* str(... or "") gives them.
Sender(platform, user_id) == [platform |-> platform, user_id |-> user_id]

Senders ==
    { Sender("qq", "100"), Sender("qq", "200"), Sender("tg", "100"),
      Sender("qq", "300"), Sender("", "200"), Sender("qq", "") }

\* The entries of the admin list: f"{platform}:{user_id}" and a bare user id.
PlatformUserId(platform, user_id) == <<platform, ":", user_id>>
BareUserId(user_id) == <<user_id>>

\* permissions.admin as configured: a list, an empty list, or no list at all.
AdminLists ==
    { [isList |-> TRUE,
       items |-> {PlatformUserId("qq", "100"), BareUserId("200")}],
      NoAdmins,
      [isList |-> FALSE, items |-> {BareUserId("200")}] }

\* Mutant: an empty platform or user id is not turned away.
is_admin_platform_user_id_lax(platform, user_id, admin_list) ==
    \/ PlatformUserId(platform, user_id) \in admin_list
    \/ BareUserId(user_id) \in admin_list

\* _is_admin_platform_user_id
is_admin_platform_user_id(platform, user_id, admin_list) ==
    IF platform = "" \/ user_id = "" THEN FALSE
    ELSE \/ PlatformUserId(platform, user_id) \in admin_list
         \/ BareUserId(user_id) \in admin_list

\* AdminOnlyCommand._is_admin
is_admin(sender) ==
    IF ~permissions_admin.isList THEN FALSE
    ELSE is_admin_platform_user_id(sender.platform, sender.user_id,
                                   permissions_admin.items)

\* The record of a command: whether send_text was called and the first
\* element of the tuple execute returned.
Command(cmd, sender, arg, replied, success) ==
    [cmd |-> cmd, platform |-> sender.platform, user_id |-> sender.user_id,
     arg |-> arg, replied |-> replied, success |-> success]

\* _silent_block_if_not_admin, when it blocks: return True, None, 2
silent_block(cmd, sender, arg) ==
    /\ lastCmd' = Command(cmd, sender, arg, FALSE, TRUE)
    /\ UNCHANGED <<relayVars, updateVars, histVars, lastParse, permissions_admin>>

\* A command that answers with send_text and changes nothing.
reply_only(cmd, sender, arg, success) ==
    /\ lastCmd' = Command(cmd, sender, arg, TRUE, success)
    /\ UNCHANGED <<relayVars, updateVars, histVars, lastParse, permissions_admin>>

\* The scores /impression set may name: the pattern admits digits only.
SetScores == {0, 1, 99, 100, 101}

\* A score of the command in the half points the UserState is kept in.
HalfPoints(score) == 2 * score

\* Mutant: the score of the command is not checked against its range.
score_in_range_any(score) == TRUE

\* `0 <= score <= 100` (commands.py line 115)
score_in_range(score) == 0 <= score /\ score <= 100

\* SetAffectionCommand.execute
SetAffectionCommand(sender, user_id, score) ==
    IF ~is_admin(sender) THEN silent_block("set", sender, ToString(score))
    ELSE IF ~score_in_range(score) THEN
        reply_only("set", sender, ToString(score), FALSE)
    ELSE
        /\ userState' =
               Put(userState, user_id,
                   [GetOrCreate(userState, user_id) EXCEPT
                        !.score = HalfPoints(score),
                        !.level = get_affection_level(HalfPoints(score))])
        /\ lastCmd' = Command("set", sender, ToString(score), TRUE, TRUE)
        /\ UNCHANGED <<relayVars, histVars, filter_mode, max_messages, dbMessages, ledger, tasks,
                       msgState, lastParse, permissions_admin>>

\* ViewImpressionCommand.execute: for a subject with a UserState, the
\* message-state row is created when it is missing (get_or_create, line 67).
ViewImpressionCommand(sender, user_id) ==
    IF ~is_admin(sender) THEN silent_block("view", sender, user_id)
    ELSE IF ~Has(userState, user_id) THEN reply_only("view", sender, user_id, FALSE)
    ELSE
        /\ msgState' = Put(msgState, user_id, GetOrCreateState(user_id))
        /\ lastCmd' = Command("view", sender, user_id, TRUE, TRUE)
        /\ UNCHANGED <<relayVars, histVars, filter_mode, max_messages, dbMessages, ledger, tasks,
                       userState, lastParse, permissions_admin>>

\* ListImpressionsCommand.execute
ListImpressionsCommand(sender) ==
    IF ~is_admin(sender) THEN silent_block("list", sender, "")
    ELSE reply_only("list", sender, "", TRUE)

\* ToggleActionCheckCommand.execute with state "on", "off" or "status"
ToggleActionCheckCommand(sender, state) ==
    IF ~is_admin(sender) THEN silent_block("roll", sender, state)
    ELSE IF state = "status" THEN reply_only("roll", sender, state, TRUE)
    ELSE
        /\ ToggleActionCheck(state)
        /\ lastCmd' = Command("roll", sender, state, TRUE, TRUE)
        /\ UNCHANGED <<updateVars, histVars, lastParse, permissions_admin>>

\* ToggleActionCheckShowResultCommand.execute with state "on", "off" or "status"
ToggleActionCheckShowResultCommand(sender, state) ==
    IF ~is_admin(sender) THEN silent_block("rollshow", sender, state)
    ELSE IF state = "status" THEN reply_only("rollshow", sender, state, TRUE)
    ELSE
        /\ ToggleActionCheckShowResult(state)
        /\ lastCmd' = Command("rollshow", sender, state, TRUE, TRUE)
        /\ UNCHANGED <<updateVars, histVars, lastParse, permissions_admin>>

\* --------------------------------- specification of the management commands
InitCommands ==
    /\ now = 0
    /\ enabled \in BOOLEAN
    /\ show_roll_result \in BOOLEAN
    /\ ctxByStream = EmptyDict
    /\ pendingTagByStream = EmptyDict
    /\ nextDecision = 1
    /\ applied = [d \in {} |-> 0]
    /\ lastOn = [c \in Streams |-> "other"]
    /\ last = NoCallback
    /\ UpdateIdle
    /\ lastParse = NoParse
    /\ permissions_admin \in AdminLists
    /\ lastCmd = NoCommand

NextCommands ==
    \/ \E s \in Senders, u \in Users, sc \in SetScores : SetAffectionCommand(s, u, sc)
    \/ \E s \in Senders, u \in Users : ViewImpressionCommand(s, u)
    \/ \E s \in Senders : ListImpressionsCommand(s)
    \/ \E s \in Senders, st \in {"on", "off", "status"} :
           ToggleActionCheckCommand(s, st)
    \/ \E s \in Senders, st \in {"on", "off", "status"} :
           ToggleActionCheckShowResultCommand(s, st)

SpecCommands == InitCommands /\ [][NextCommands]_vars

\* ------------------------------------- specification of the score's writers
\* The two writers of a subject's score: the Score path of turns whose window
\* is empty (no message is stored, so the evaluation is skipped), and the
\* set-score command of an administrator and of another sender.
ScoreTurns == {x \in Turns : x.user_id # NoUser /\ x.m = 1 /\ x.content}

ScoreSenders == { Sender("qq", "100"), Sender("qq", "300") }

InitScore ==
    /\ now = 0
    /\ enabled = FALSE
    /\ show_roll_result = FALSE
    /\ ctxByStream = EmptyDict
    /\ pendingTagByStream = EmptyDict
    /\ nextDecision = 1
    /\ applied = [d \in {} |-> 0]
    /\ lastOn = [c \in Streams |-> "other"]
    /\ last = NoCallback
    /\ UpdateIdle
    /\ lastParse = NoParse
    /\ permissions_admin = [isList |-> TRUE, items |-> {PlatformUserId("qq", "100")}]
    /\ lastCmd = NoCommand

NextScore ==
    \/ \E turn \in ScoreTurns :
           Deliver(turn.user_id, turn.m, turn.content) /\ UNCHANGED <<relayVars, cmdVars, histVars>>
    \/ \E t \in DOMAIN tasks : Start(t) /\ UNCHANGED <<relayVars, cmdVars, histVars>>
    \/ \E t \in DOMAIN tasks,
          r \in {"friendly", "neutral", "negative", "fail", "raise"} :
           ScoreReturn(t, r) /\ UNCHANGED <<relayVars, cmdVars, histVars>>
    \/ \E s \in ScoreSenders, u \in Users, sc \in SetScores :
           SetAffectionCommand(s, u, sc)

SpecScore == InitScore /\ [][NextScore]_vars

\* ------------------------------------ specification of the marker parser
\* _parse_action_check_marker applied to a text, apart from the relay.
Interactions == { <<>>, <<"sp">>, <<"h", "u", "g">>, <<"sp", "h", "u", "g", "sp">> }
Chances == {-1, 0, 50, 100, 101}
ResultWords == SuccessWords \cup FailWords \cup {"maybe", ""}

ParsePayloads ==
    { Payload("dict", i, TRUE, ch, pad, up, w) :
          i \in Interactions, ch \in Chances, pad \in BOOLEAN,
          up \in BOOLEAN, w \in ResultWords }
        \cup { Payload("dict", <<"h", "u", "g">>, FALSE, 0, FALSE, FALSE, "ok"),
               Payload("malformed", <<>>, FALSE, 0, FALSE, FALSE, "") }

ParseTexts ==
    { <<TextLine, MarkerLine(TRUE, TRUE, p)>> : p \in ParsePayloads }
        \cup { <<>>, <<TextLine>>,
               <<TextLine, MarkerLine(TRUE, FALSE, GoodPayload(80, "fail"))>>,
               <<MarkerLine(FALSE, TRUE, GoodPayload(80, "fail")), TextLine>>,
               <<MarkerLine(TRUE, TRUE, GoodPayload(80, "fail")),
                 MarkerLine(TRUE, TRUE, BadResultPayload)>>,
               <<MarkerLine(TRUE, TRUE, BadResultPayload), TextLine,
                 MarkerLine(TRUE, TRUE, GoodPayload(130, "ok"))>> }

Parse(text) ==
    /\ lastParse' = [text |-> text, decision |-> parse_action_check_marker(text)]
    /\ UNCHANGED <<permissions_admin, lastCmd>>

InitParse ==
    /\ now = 0
    /\ enabled = FALSE
    /\ show_roll_result = FALSE
    /\ ctxByStream = EmptyDict
    /\ pendingTagByStream = EmptyDict
    /\ nextDecision = 1
    /\ applied = [d \in {} |-> 0]
    /\ lastOn = [c \in Streams |-> "other"]
    /\ last = NoCallback
    /\ UpdateIdle
    /\ CommandsIdle

NextParse ==
    \/ \E text \in ParseTexts : Parse(text) /\ UNCHANGED <<relayVars, updateVars, histVars>>

SpecParse == InitParse /\ [][NextParse]_vars

\* ---------------------------------------------- specification of the relay
\* The update pipeline shares no state with the relay and stays at rest.
Init ==
    /\ now = 0
    /\ enabled \in BOOLEAN
    /\ show_roll_result \in BOOLEAN
    /\ ctxByStream = EmptyDict
    /\ pendingTagByStream = EmptyDict
    /\ nextDecision = 1
    /\ applied = [d \in {} |-> 0]
    /\ lastOn = [c \in Streams |-> "other"]
    /\ last = NoCallback
    /\ UpdateIdle
    /\ CommandsIdle

Next ==
    \/ Tick /\ UNCHANGED <<updateVars, cmdVars, histVars>>
    \/ \E c \in OneStream, p \in PlannerPrompts : PointA(c, p) /\ UNCHANGED <<updateVars, cmdVars, histVars>>
    \/ \E c \in OneStream, p \in RelayPrompts : PointB(c, p) /\ UNCHANGED <<updateVars, cmdVars, histVars>>
    \/ \E c \in OneStream : PointC(c) /\ UNCHANGED <<updateVars, cmdVars, histVars>>
    \/ \E c \in OneStream, m \in Messages : PointD(c, m) /\ UNCHANGED <<updateVars, cmdVars, histVars>>
    \/ \E c \in OneStream : Resend(c) /\ UNCHANGED <<updateVars, cmdVars, histVars>>
    \/ \E c \in OneStream : Replan(c) /\ UNCHANGED <<updateVars, cmdVars, histVars>>
    \/ \E st \in {"on", "off"} : ToggleActionCheck(st) /\ UNCHANGED <<updateVars, cmdVars, histVars>>
    \/ \E st \in {"on", "off"} : ToggleActionCheckShowResult(st) /\ UNCHANGED <<updateVars, cmdVars, histVars>>

Spec == Init /\ [][Next]_vars

\* ------------------------------- specification of the relay on two streams
\* Two conversations share the process-wide dicts; the feature and the display
\* tag stay on and each callback gets one of a few inputs.
StreamPrompts ==
    { <<TextLine>>,
      <<TextLine, MarkerLine(TRUE, TRUE, GoodPayload(80, "fail"))>> }

StreamMessages == { <<SegText(T_hi)>> }

InitStreams ==
    /\ now = 0
    /\ enabled = TRUE
    /\ show_roll_result = TRUE
    /\ ctxByStream = EmptyDict
    /\ pendingTagByStream = EmptyDict
    /\ nextDecision = 1
    /\ applied = [d \in {} |-> 0]
    /\ lastOn = [c \in Streams |-> "other"]
    /\ last = NoCallback
    /\ UpdateIdle
    /\ CommandsIdle

NextStreams ==
    \/ Tick /\ UNCHANGED <<updateVars, cmdVars, histVars>>
    \/ \E c \in Streams : PointA(c, <<TextLine>>) /\ UNCHANGED <<updateVars, cmdVars, histVars>>
    \/ \E c \in Streams, p \in StreamPrompts : PointB(c, p) /\ UNCHANGED <<updateVars, cmdVars, histVars>>
    \/ \E c \in Streams : PointC(c) /\ UNCHANGED <<updateVars, cmdVars, histVars>>
    \/ \E c \in Streams, m \in StreamMessages : PointD(c, m) /\ UNCHANGED <<updateVars, cmdVars, histVars>>

SpecStreams == InitStreams /\ [][NextStreams]_vars

\* ------------------------------------ specification of the update pipeline
\* The relay stays at rest, with its features off.
InitUpdate ==
    /\ filter_mode \in FilterModes
    /\ max_messages = default_max_messages
    /\ seen = NoneSeen
    /\ dbMessages = EmptyDict
    /\ ledger = {}
    /\ tasks = <<>>
    /\ userState = EmptyDict
    /\ msgState = EmptyDict
    /\ now = 0
    /\ enabled = FALSE
    /\ show_roll_result = FALSE
    /\ ctxByStream = EmptyDict
    /\ pendingTagByStream = EmptyDict
    /\ nextDecision = 1
    /\ applied = [d \in {} |-> 0]
    /\ lastOn = [c \in Streams |-> "other"]
    /\ last = NoCallback
    /\ CommandsIdle

NextUpdate ==
    \/ \E m \in MessageIds, long \in BOOLEAN :
           Arrive(m, long) /\ UNCHANGED <<relayVars, cmdVars, histVars>>
    \/ \E turn \in Turns :
           Deliver(turn.user_id, turn.m, turn.content) /\ UNCHANGED <<relayVars, cmdVars, histVars>>
    \/ \E t \in DOMAIN tasks : Start(t) /\ UNCHANGED <<relayVars, cmdVars, histVars>>
    \/ \E t \in DOMAIN tasks, r \in EvalResults :
           EvalReturn(t, r) /\ UNCHANGED <<relayVars, cmdVars, histVars>>
    \/ \E t \in DOMAIN tasks, r \in {"ok", "fail", "raise"} :
           ProfileReturn(t, r) /\ UNCHANGED <<relayVars, cmdVars, histVars>>
    \/ \E t \in DOMAIN tasks,
          r \in {"friendly", "neutral", "negative", "fail", "raise"} :
           ScoreReturn(t, r) /\ UNCHANGED <<relayVars, cmdVars, histVars>>

SpecUpdate == InitUpdate /\ [][NextUpdate]_vars

\* What a task finds when it fetches its first window: the stored ids, and
\* the ids of every qualifying turn that is not in the ledger.
AtFetch(user_id) ==
    [stored |-> DOMAIN dbMessages,
     unprocessed |-> get_filtered_messages(user_id, Cardinality(DOMAIN dbMessages))]

\* The values of history.max_messages the window is checked with: a window
\* of one turn, and the default.
WindowLimits == {1, default_max_messages}

\* The update pipeline with a configured window size, the plugin's default
\* filter mode and a reduced evaluator: what the two window fetches of one
\* task return. seen records what the host had stored at the first fetch.
InitWindow ==
    /\ filter_mode = "selective"
    /\ max_messages \in WindowLimits
    /\ seen = NoneSeen
    /\ dbMessages = EmptyDict
    /\ ledger = {}
    /\ tasks = <<>>
    /\ userState = EmptyDict
    /\ msgState = EmptyDict
    /\ now = 0
    /\ enabled = FALSE
    /\ show_roll_result = FALSE
    /\ ctxByStream = EmptyDict
    /\ pendingTagByStream = EmptyDict
    /\ nextDecision = 1
    /\ applied = [d \in {} |-> 0]
    /\ lastOn = [c \in Streams |-> "other"]
    /\ last = NoCallback
    /\ CommandsIdle

NextWindow ==
    \/ \E m \in MessageIds, long \in BOOLEAN :
           Arrive(m, long) /\ UNCHANGED <<relayVars, cmdVars, histVars>>
    \/ \E turn \in {x \in Turns : x.user_id # NoUser /\ x.content} :
           Deliver(turn.user_id, turn.m, turn.content) /\ UNCHANGED <<relayVars, cmdVars, histVars>>
    \/ \E t \in DOMAIN tasks :
           Start(t) /\ seen' = [seen EXCEPT ![t] = AtFetch(tasks[t].user_id)] /\ UNCHANGED <<relayVars, cmdVars>>
    \/ \E t \in DOMAIN tasks, r \in {x \in EvalResults : x.score \in {0, 69, 70}} :
           EvalReturn(t, r) /\ UNCHANGED <<relayVars, cmdVars, histVars>>
    \/ \E t \in DOMAIN tasks, r \in {"ok", "fail"} :
           ProfileReturn(t, r) /\ UNCHANGED <<relayVars, cmdVars, histVars>>
    \/ \E t \in DOMAIN tasks, r \in {"neutral", "fail"} :
           ScoreReturn(t, r) /\ UNCHANGED <<relayVars, cmdVars, histVars>>

SpecWindow == InitWindow /\ [][NextWindow]_vars

\* A step of orchestration t: the event loop resumes it where it waits.
TaskStep(t) ==
    \/ Start(t)
    \/ \E r \in EvalResults : EvalReturn(t, r)
    \/ \E r \in {"ok", "fail", "raise"} : ProfileReturn(t, r)
    \/ \E r \in {"friendly", "neutral", "negative", "fail", "raise"} :
           ScoreReturn(t, r)

\* ------------------- specification of the update pipeline, with fairness
\* Termination does not depend on the values the services give back, so one
\* value of each kind is enough: the balanced mode, a score on either side of
\* its threshold, one class.
LiveEvalResults == {r \in EvalResults : r.kind = "ok" => r.score \in {39, 40}}
LiveScoreResults == {"neutral", "fail", "raise"}

InitLive == InitUpdate /\ filter_mode = "balanced"

LiveTaskStep(t) ==
    \/ Start(t)
    \/ \E r \in LiveEvalResults : EvalReturn(t, r)
    \/ \E r \in {"ok", "fail", "raise"} : ProfileReturn(t, r)
    \/ \E r \in LiveScoreResults : ScoreReturn(t, r)

NextLive ==
    \/ \E m \in MessageIds, long \in BOOLEAN :
           Arrive(m, long) /\ UNCHANGED <<relayVars, cmdVars, histVars>>
    \/ \E turn \in Turns :
           Deliver(turn.user_id, turn.m, turn.content) /\ UNCHANGED <<relayVars, cmdVars, histVars>>
    \/ \E t \in DOMAIN tasks : Start(t) /\ UNCHANGED <<relayVars, cmdVars, histVars>>
    \/ \E t \in DOMAIN tasks, r \in LiveEvalResults :
           EvalReturn(t, r) /\ UNCHANGED <<relayVars, cmdVars, histVars>>
    \/ \E t \in DOMAIN tasks, r \in {"ok", "fail", "raise"} :
           ProfileReturn(t, r) /\ UNCHANGED <<relayVars, cmdVars, histVars>>
    \/ \E t \in DOMAIN tasks, r \in LiveScoreResults :
           ScoreReturn(t, r) /\ UNCHANGED <<relayVars, cmdVars, histVars>>

\* The event loop runs every launched task, and every awaited call to the
\* text-generation capability or the store returns or fails: no launched
\* orchestration waits for ever.
SpecUpdateFair ==
    /\ InitLive
    /\ [][NextLive]_vars
    /\ \A t \in 1..MaxTasks :
           WF_vars(t \in DOMAIN tasks /\ LiveTaskStep(t) /\ UNCHANGED <<relayVars, cmdVars, histVars>>)

\* ------------------------------- specification of the handlers' entry points
\* Every lifecycle handler as the host calls it, at one instant of time; the
\* orchestrations the update handler launches are left pending.
InitHandlers ==
    /\ now = 0
    /\ enabled \in BOOLEAN
    /\ show_roll_result \in BOOLEAN
    /\ ctxByStream = EmptyDict
    /\ pendingTagByStream = EmptyDict
    /\ nextDecision = 1
    /\ applied = [d \in {} |-> 0]
    /\ lastOn = [c \in Streams |-> "other"]
    /\ last = NoCallback
    /\ filter_mode = "selective"
    /\ max_messages = default_max_messages
    /\ seen = NoneSeen
    /\ dbMessages = EmptyDict
    /\ ledger = {}
    /\ tasks = <<>>
    /\ userState = EmptyDict
    /\ msgState = EmptyDict
    /\ CommandsIdle

NextHandlers ==
    \/ \E c \in OneStream, p \in PlannerPrompts : PointA(c, p) /\ UNCHANGED <<updateVars, cmdVars, histVars>>
    \/ \E c \in OneStream, p \in RelayPrompts : PointB(c, p) /\ UNCHANGED <<updateVars, cmdVars, histVars>>
    \/ \E c \in OneStream : PointC(c) /\ UNCHANGED <<updateVars, cmdVars, histVars>>
    \/ \E c \in OneStream, m \in Messages : PointD(c, m) /\ UNCHANGED <<updateVars, cmdVars, histVars>>
    \/ \E st \in {"on", "off"} : ToggleActionCheck(st) /\ UNCHANGED <<updateVars, cmdVars, histVars>>
    \/ \E st \in {"on", "off"} : ToggleActionCheckShowResult(st) /\ UNCHANGED <<updateVars, cmdVars, histVars>>
    \/ \E op \in {"A", "B", "C", "D"}, c \in OneStream :
           HandlerRaises(op, c) /\ UNCHANGED <<updateVars, cmdVars, histVars>>
    \/ \E op \in {"A", "B", "C", "D"} : MissingMessage(op) /\ UNCHANGED <<updateVars, cmdVars, histVars>>
    \/ \E turn \in {x \in Turns : x.m = 1 /\ x.content} :
           Deliver(turn.user_id, turn.m, turn.content) /\ UNCHANGED <<relayVars, cmdVars, histVars>>
    \/ LaunchFails /\ UNCHANGED <<updateVars, cmdVars, histVars>>

SpecHandlers == InitHandlers /\ [][NextHandlers]_vars

\* ===================================================================== claims
\* The tag Point C builds from a decision, written out.
ExpectedTag(chance, result) ==
    <<"MK", "sp", ToString(chance), "%", "sp",
      IF result = "success" THEN "zh_success" ELSE "zh_fail", "]">>

\* C1: for any sequence of relay callbacks on one conversation, each decision
\* stored by a successful Point B parse is prepended to at most one outgoing
\* message, and no Point D invocation changes more than one segment.
C1_AtMostOnce ==
    /\ \A d \in DOMAIN applied : applied[d] <= 1
    /\ last.n <= 1

\* C1 witness: a decision has been prepended, by a Point D that was handed a
\* message with two text-bearing segments.
C1_Witness ==
    /\ \E d \in DOMAIN applied : applied[d] = 1
    /\ last.op = "D" /\ last.ok /\ last.n = 1
    /\ Cardinality({i \in 1..Len(last.inMsg) : TextBearing(last.inMsg[i])}) = 2

\* C2 (as claimed): in a turn where Point B fails to parse a marker, the
\* Point D of that turn (the next one on the conversation, directly or after
\* that turn's Point C) prepends no tag.
C2_NoTagAfterParseFailure ==
    (last.op = "D" /\ last.prev \in {"Bfail", "BfailC"})
        => (~last.ok /\ last.outMsg = last.inMsg)

\* C3 (as claimed): after a successful Point B, then Point C, then Point D, all
\* within the TTLs and with the feature and the display tag on, the first
\* text-bearing segment is the tag, one space and the original text, the
\* other segments are unchanged and both entries of the conversation are gone.
C3_AsClaimed ==
    [][\A c \in Streams :
        ( /\ lastOn[c] = "BokC" /\ lastOn'[c] # "BokC"
          /\ last'.op = "D" /\ last'.stream = c
          /\ enabled /\ show_roll_result
          /\ Has(ctxByStream, c) /\ ~CtxExpired(c)
          /\ Has(pendingTagByStream, c) /\ ~TagExpired(c)
          /\ first_text_segment(last'.inMsg) # 0 )
        => LET i == first_text_segment(last'.inMsg)
               text == last'.inMsg[i].data
               tag == ExpectedTag(ctxByStream[c].chance, ctxByStream[c].result)
           IN  /\ Len(last'.outMsg) = Len(last'.inMsg)
               /\ last'.outMsg[i].data = tag \o <<"sp">> \o text
               /\ \A j \in 1..Len(last'.inMsg) : j # i => last'.outMsg[j] = last'.inMsg[j]
               /\ ~Has(ctxByStream', c)
               /\ ~Has(pendingTagByStream', c)]_vars

\* C3 (amended): in that sequence, on a message with a text-bearing segment,
\* the first such segment is left as it is when its text, leading whitespace
\* aside, already starts with the tag marker, and else becomes the tag, one
\* space and the original text with trailing whitespace removed; the other
\* segments are unchanged and both entries of the conversation are gone.
C3_TagPrefixedAndCleared ==
    [][\A c \in Streams :
        ( /\ lastOn[c] = "BokC" /\ lastOn'[c] # "BokC"
          /\ last'.op = "D" /\ last'.stream = c
          /\ enabled /\ show_roll_result
          /\ Has(ctxByStream, c) /\ ~CtxExpired(c)
          /\ Has(pendingTagByStream, c) /\ ~TagExpired(c)
          /\ first_text_segment(last'.inMsg) # 0 )
        => LET i == first_text_segment(last'.inMsg)
               text == last'.inMsg[i].data
               tag == ExpectedTag(ctxByStream[c].chance, ctxByStream[c].result)
           IN  /\ Len(last'.outMsg) = Len(last'.inMsg)
               /\ last'.outMsg[i].type = "text"
               /\ last'.outMsg[i].data =
                      IF startswith(lstrip(text), <<"MK">>) THEN text
                      ELSE rstrip(tag \o <<"sp">> \o text)
               /\ \A j \in 1..Len(last'.inMsg) : j # i => last'.outMsg[j] = last'.inMsg[j]
               /\ ~Has(ctxByStream', c)
               /\ ~Has(pendingTagByStream', c)]_vars

\* C3 witness: Point D has prepended the tag right after B and C, within the
\* TTLs, to a text that ends in whitespace.
C3_Witness ==
    /\ last.op = "D" /\ last.prev = "BokC" /\ last.ok
    /\ last.hadCtx /\ last.hadTag
    /\ last.inMsg = <<SegImage, SegOdd, SegText(T_trail), SegText(T_hi)>>
    /\ last.outMsg[3].data = ExpectedTag(80, "fail") \o <<"sp", "h", "i">>
    /\ ~Has(ctxByStream, "s1") /\ ~Has(pendingTagByStream, "s1")

\* C4: a Point D that directly follows, on the same conversation, a Point D
\* that prepended the pending tag leaves the message segments unchanged.
C4_SecondPointDNoOp ==
    (last.op = "D" /\ last.prev = "Dap")
        => (last.outMsg = last.inMsg /\ ~last.ok /\ last.n = 0
            /\ \A d \in DOMAIN applied : applied[d] <= 1)

\* C4 witness: the second Point D was handed a message whose first
\* text-bearing segment carries no tag yet, and left it alone.
C4_Witness ==
    /\ last.op = "D" /\ last.prev = "Dap"
    /\ last.inMsg = <<SegText(T_hi)>>
    /\ last.outMsg = <<SegText(T_hi)>>

\* C5 (as claimed): a Point D that finds the OutcomeContext of its
\* conversation older than 120 seconds prepends no tag.
C5_NoTagOnExpiredContext ==
    (last.op = "D" /\ last.ctxExpired) => (~last.ok /\ last.outMsg = last.inMsg)

\* C6: when Point C (feature and display tag on) finds the OutcomeContext of
\* its conversation older than 120 seconds, the context is removed and no
\* PendingTag is stashed: a pending tag is only kept as it was, or evicted.
C6_ExpiredContextIsAbsent ==
    [][\A c \in Streams :
        ( /\ CtxExpired(c) /\ enabled /\ show_roll_result
          /\ last'.op = "C" /\ last'.stream = c /\ last'.ctxExpired )
        => /\ ~Has(ctxByStream', c)
           /\ ~last'.ok
           /\ Has(pendingTagByStream', c) =>
                  /\ Has(pendingTagByStream, c)
                  /\ pendingTagByStream'[c] = pendingTagByStream[c]]_vars

\* C6 witness: Point C has met a context created 121 seconds earlier.
C6_Witness ==
    /\ last.op = "C" /\ last.ctxExpired /\ ~last.ok
    /\ now = 121
    /\ ~Has(ctxByStream, "s1")

\* C7: when Point D (feature and display tag on) finds the PendingTag of its
\* conversation older than 60 seconds, the tag is evicted, the message is
\* returned unchanged and no decision is counted as prepended.
C7_ExpiredTagNeverPrepended ==
    [][\A c \in Streams :
        ( /\ TagExpired(c) /\ enabled /\ show_roll_result
          /\ last'.op = "D" /\ last'.stream = c /\ last'.tagExpired )
        => /\ ~Has(pendingTagByStream', c)
           /\ last'.outMsg = last'.inMsg
           /\ ~last'.ok
           /\ applied' = applied]_vars

\* C7 witness: Point D has met a tag stashed 61 seconds earlier, with a
\* message it would otherwise have prefixed.
C7_Witness ==
    /\ last.op = "D" /\ last.tagExpired
    /\ last.inMsg = <<SegText(T_hi)>> /\ last.outMsg = <<SegText(T_hi)>>
    /\ ~Has(pendingTagByStream, "s1")

\* How often a turn's derived-state update has been dispatched.
derivation_runs(t) == tasks[t].profile_runs + tasks[t].score_runs

\* The configured filter mode accepts a score (70 and 40 are the configured
\* thresholds).
ModeAccepts(mode, weight_score) ==
    \/ mode = "disabled"
    \/ mode = "selective" /\ weight_score >= 70
    \/ mode = "balanced" /\ weight_score >= 40

\* C8 (as claimed): whatever turns are delivered, the derived-state update
\* (Profile or Score path) is dispatched for at most one delivery of a given
\* (subject, message id) turn.
C8_DerivationAtMostOncePerTurn ==
    \A t1, t2 \in DOMAIN tasks :
        ( /\ t1 # t2
          /\ tasks[t1].user_id = tasks[t2].user_id
          /\ tasks[t1].message_id # NoId
          /\ tasks[t1].message_id = tasks[t2].message_id )
        => ~(derivation_runs(t1) > 0 /\ derivation_runs(t2) > 0)

ProfileOf(d, user_id) == GetOrCreate(d, user_id).profile

PastWindowFetch(t) ==
    \/ tasks[t].pc \in {"eval", "profile", "score"}
    \/ tasks[t].outcome \in {"settled", "failed"}

\* C11: in every orchestration that has gone past the window fetch, so from
\* the state in which the evaluator or a derivation path is first called and
\* in every later state, whatever their outcome, every message id of the
\* first window is recorded in the ledger for the subject.
C11_WindowMarkedBeforeEvaluation ==
    \A t \in DOMAIN tasks :
        PastWindowFetch(t)
        => \A id \in tasks[t].window : is_message_processed(tasks[t].user_id, id)

\* C11 witness: one turn waits for the evaluator with its window marked, and
\* another has ended in a caught failure with its window still marked.
C11_Witness ==
    /\ \E t \in DOMAIN tasks :
           /\ tasks[t].pc = "eval" /\ tasks[t].window # {}
           /\ \A id \in tasks[t].window : <<tasks[t].user_id, id>> \in ledger
    /\ \E t \in DOMAIN tasks :
           /\ tasks[t].outcome = "failed" /\ tasks[t].window # {}
           /\ \A id \in tasks[t].window : <<tasks[t].user_id, id>> \in ledger

\* C12: under every interleaving of the orchestrations of the turns of one
\* subject, no message id is in the first window of two orchestrations.
C12_WindowsDisjoint ==
    \A t1, t2 \in DOMAIN tasks :
        (t1 # t2 /\ tasks[t1].user_id = tasks[t2].user_id)
        => tasks[t1].window \cap tasks[t2].window = {}

\* C12 witness: two orchestrations of one subject wait for the evaluator at
\* the same time, each with a window of its own.
C12_Witness ==
    \E t1, t2 \in DOMAIN tasks :
        /\ t1 # t2 /\ tasks[t1].user_id = tasks[t2].user_id
        /\ tasks[t1].pc = "eval" /\ tasks[t2].pc = "eval"
        /\ tasks[t1].window # {} /\ tasks[t2].window # {}

\* C13 (as claimed): the step in which an orchestration passes the ledger
\* check leaves the turn's own (subject, message id) pair recorded in the
\* ledger, and it records no pair that was recorded before.
C13_OwnTurnRecordedOnce ==
    [][\A t \in DOMAIN tasks :
        (tasks[t].pc = "start" /\ tasks'[t].pc \in {"eval", "score"})
        => /\ <<tasks[t].user_id, tasks'[t].message_id>> \in ledger'
           /\ \A id \in tasks'[t].window : <<tasks[t].user_id, id>> \notin ledger]_vars

\* C14: whatever the Profile path returned (a profile, ok=false or an
\* exception), the turn goes on to the Score path, which runs once, and a
\* failed Profile path has written nothing; whatever the Score path returned,
\* the profile of the subject stays as it was, the turn settles, and a Score
\* path that succeeded has counted the turn for the subject.
C14_PathsIndependent ==
    [][\A t \in DOMAIN tasks :
        LET u == tasks[t].user_id
        IN  /\ (tasks[t].pc = "profile" /\ tasks'[t] # tasks[t])
               => /\ tasks'[t].pc = "score"
                  /\ tasks'[t].score_runs = 1
                  /\ ~tasks'[t].impression_updated => userState' = userState
            /\ (tasks[t].pc = "score" /\ tasks'[t] # tasks[t])
               => /\ ProfileOf(userState', u) = ProfileOf(userState, u)
                  /\ tasks'[t].outcome = "settled"
                  /\ msgState'[u].affection_updated
                       => /\ Has(userState', u)
                          /\ userState'[u].message_count
                                 = GetOrCreate(userState, u).message_count + 1]_vars

\* C14 witness: the only turn so far ran the Profile path, which failed and
\* wrote no profile, and then the Score path, which wrote its result.
C14_Witness ==
    /\ Len(tasks) = 1
    /\ tasks[1].outcome = "settled"
    /\ tasks[1].profile_runs = 1 /\ tasks[1].score_runs = 1
    /\ Has(userState, tasks[1].user_id)
    /\ userState[tasks[1].user_id].profile = NewUser.profile
    /\ userState[tasks[1].user_id].message_count = 1
    /\ ~msgState[tasks[1].user_id].impression_updated
    /\ msgState[tasks[1].user_id].affection_updated

C16_GateFollowsMode ==
    [][\A t \in DOMAIN tasks :
        ( /\ tasks[t].pc = "eval" /\ tasks'[t] # tasks[t]
          /\ ~tasks'[t].history_empty /\ tasks'[t].weight_success )
        => /\ tasks'[t].should_update_impression
                  <=> ModeAccepts(filter_mode, tasks'[t].weight_score)
           /\ tasks'[t].pc = "profile" <=> tasks'[t].should_update_impression
           /\ tasks'[t].pc \in {"profile", "score"}]_vars

\* C16 witness: in the selective mode a turn that scored 70 is in the Profile
\* path and a turn that scored 69 has been sent past it to the Score path.
C16_Witness ==
    /\ filter_mode = "selective"
    /\ \E t \in DOMAIN tasks :
           /\ tasks[t].pc = "profile" /\ tasks[t].should_update_impression
           /\ tasks[t].weight_success /\ tasks[t].weight_score = 70
    /\ \E t \in DOMAIN tasks :
           /\ tasks[t].pc = "score" /\ ~tasks[t].should_update_impression
           /\ tasks[t].weight_success /\ tasks[t].weight_score = 69
           /\ tasks[t].profile_runs = 0

\* C17: whatever path a lifecycle handler took (feature off, no input, its
\* regular work, or an exception inside it), what it gave back to the host
\* says success and continue: the last relay handler or failed launch did
\* so, and so did every call of the update handler that launched a task.
C17_HandlersAlwaysContinue ==
    /\ last.ret.success /\ last.ret.continue
    /\ \A t \in DOMAIN tasks :
           \A i \in DOMAIN tasks[t].reply :
               tasks[t].reply[i].success /\ tasks[t].reply[i].continue

\* C17 witness: with the feature on, Point D has raised inside its body and
\* returned, after the update handler had launched a task.
C17_Witness ==
    /\ enabled /\ show_roll_result
    /\ last.op = "D" /\ last.raised
    /\ last.ret = [success |-> TRUE, continue |-> TRUE]
    /\ tasks # <<>>
    /\ Has(pendingTagByStream, "s1")

\* C18: the update handler has answered the host from the step that launches
\* the orchestration on, also while the orchestration has not started or
\* waits for the evaluator or a derivation path; the launching step touches
\* no store; and nothing that happens to the orchestration afterwards, a
\* failure included, changes the answer the host got.
C18_FireAndForget ==
    [][/\ \A t \in DOMAIN tasks' :
              tasks'[t].reply = <<[success |-> TRUE, continue |-> TRUE]>>
       /\ \A t \in DOMAIN tasks : tasks'[t].reply = tasks[t].reply
       /\ Len(tasks') > Len(tasks)
              => /\ tasks'[Len(tasks')].pc = "start"
                 /\ ~tasks'[Len(tasks')].evaluated
                 /\ tasks'[Len(tasks')].profile_runs = 0
                 /\ tasks'[Len(tasks')].score_runs = 0
                 /\ UNCHANGED <<dbMessages, ledger, userState, msgState>>]_vars

\* C18 witness: the host has its answers while one orchestration still
\* waits for the evaluator and another has ended in a caught failure.
C18_Witness ==
    /\ \E t \in DOMAIN tasks :
           tasks[t].pc = "eval" /\ tasks[t].reply # <<>>
    /\ \E t \in DOMAIN tasks :
           /\ tasks[t].outcome = "failed"
           /\ tasks[t].reply = <<[success |-> TRUE, continue |-> TRUE]>>

\* A step in which orchestration t met a failure: its evaluator raised, its
\* Profile path gave no profile, or its Score path gave no score.
FailureStepOf(t) ==
    \/ tasks[t].pc = "eval" /\ tasks'[t].outcome = "failed"
    \/ tasks[t].pc = "profile" /\ tasks'[t].pc = "score"
           /\ ~tasks'[t].impression_updated
    \/ tasks[t].pc = "score" /\ tasks'[t].pc = "done"
           /\ ~msgState'[tasks[t].user_id].affection_updated

\* C19: with orchestrations running interleaved, a step in which one of them
\* meets a failure leaves every other orchestration as it was and still able
\* to take its next step, and writes nothing to the ledger or to any
\* UserState; the one thing it may write is, after a failed Score path, the
\* summary of its own turn.
C19_FailureStaysInItsTurn ==
    [][\A t \in DOMAIN tasks :
        FailureStepOf(t)
        => /\ \A x \in DOMAIN tasks \ {t} :
                  /\ tasks'[x] = tasks[x]
                  /\ tasks[x].pc # "done" => ENABLED TaskStep(x)
           /\ ledger' = ledger
           /\ userState' = userState
           /\ msgState' =
                  IF tasks[t].pc = "score"
                  THEN Put(msgState, tasks[t].user_id,
                           [last_message_id |-> tasks[t].message_id,
                            total_messages |->
                                GetOrCreateState(tasks[t].user_id).total_messages + 1,
                            impression_updated |-> tasks[t].impression_updated,
                            affection_updated |-> FALSE])
                  ELSE msgState]_vars

\* C19 witness: one orchestration has ended in a caught failure, and the
\* other, launched before it, has settled with both of its results written.
C19_Witness ==
    \E t1, t2 \in DOMAIN tasks :
        /\ t1 < t2
        /\ tasks[t2].outcome = "failed"
        /\ tasks[t1].outcome = "settled" /\ tasks[t1].profile_runs = 1
        /\ ProfileOf(userState, tasks[t1].user_id) = t1
        /\ msgState[tasks[t1].user_id].last_message_id = tasks[t1].message_id
        /\ msgState[tasks[t1].user_id].impression_updated
        /\ msgState[tasks[t1].user_id].affection_updated

\* C20: when the event loop runs every launched task and every awaited call
\* returns or fails, every launched orchestration reaches a terminal state:
\* rejected, without content, skipped, settled or a caught failure.
C20_EveryOrchestrationTerminates ==
    \A t \in 1..MaxTasks :
        (t \in DOMAIN tasks)
            ~> ( /\ t \in DOMAIN tasks
                 /\ tasks[t].pc = "done"
                 /\ tasks[t].outcome \in {"rejected", "no_content", "skipped",
                                          "settled", "failed"} )

\* C20 witness: every launched orchestration has ended, one of them in a
\* caught failure and one settled after both of its paths had failed.
C20_Witness ==
    /\ \A t \in DOMAIN tasks : tasks[t].pc = "done"
    /\ \E t \in DOMAIN tasks : tasks[t].outcome = "failed"
    /\ \E t \in DOMAIN tasks :
           /\ tasks[t].outcome = "settled" /\ tasks[t].profile_runs = 1
           /\ msgState[tasks[t].user_id].last_message_id = tasks[t].message_id
           /\ ~msgState[tasks[t].user_id].impression_updated
           /\ ~msgState[tasks[t].user_id].affection_updated

\* C24: when Point B runs with the feature enabled and a non-empty prompt that
\* holds no parseable decision marker, afterwards the conversation has no
\* OutcomeContext (one left by an earlier turn is dropped) and the prompt is
\* passed through unchanged.
C24_ParseFailureDropsContext ==
    [][\A c \in OneStream, p \in RelayPrompts :
        ( /\ PointB(c, p)
          /\ enabled /\ p # <<>>
          /\ parse_action_check_marker(p) = <<>> )
        => /\ ~Has(ctxByStream', c)
           /\ last'.op = "B" /\ last'.inMsg = p /\ last'.outMsg = p
           /\ ~last'.ok]_vars

\* C24 witness: Point B has met a prompt whose only marker has an unknown
\* result while a context of an earlier turn, within its TTL, was stored.
C24_Witness ==
    /\ last.op = "B" /\ ~last.ok /\ last.hadCtx
    /\ last.inMsg = <<TextLine, MarkerLine(TRUE, TRUE, BadResultPayload)>>
    /\ last.outMsg = last.inMsg
    /\ ~Has(ctxByStream, "s1")

\* The messages Point D is handed: the input set and a resent message.
DMessages == Messages \cup (IF last.op = "D" THEN {last.outMsg} ELSE {})

\* C25: with the relay feature disabled each of Points A, B, C and D returns
\* its message (prompt, segments) as it got it and leaves both relay dicts
\* unchanged; so do Points C and D with the display tag disabled.
C25_DisabledIsNoOp ==
    [][\A c \in OneStream :
        /\ \A p \in PlannerPrompts :
               (PointA(c, p) /\ ~enabled) =>
                   /\ last'.outMsg = p
                   /\ ctxByStream' = ctxByStream
                   /\ pendingTagByStream' = pendingTagByStream
        /\ \A p \in RelayPrompts :
               (PointB(c, p) /\ ~enabled) =>
                   /\ last'.outMsg = p
                   /\ ctxByStream' = ctxByStream
                   /\ pendingTagByStream' = pendingTagByStream
        /\ (PointC(c) /\ (~enabled \/ ~show_roll_result)) =>
               /\ ctxByStream' = ctxByStream
               /\ pendingTagByStream' = pendingTagByStream
        /\ \A m \in DMessages :
               (PointD(c, m) /\ (~enabled \/ ~show_roll_result)) =>
                   /\ last'.outMsg = m
                   /\ ctxByStream' = ctxByStream
                   /\ pendingTagByStream' = pendingTagByStream]_vars

\* C25 witness: with the feature off, Point D was handed a text message while
\* the conversation held a context and a pending tag, and left all three.
C25_Witness ==
    /\ ~enabled /\ show_roll_result
    /\ last.op = "D" /\ ~last.ok
    /\ last.inMsg = <<SegText(T_hi)>> /\ last.outMsg = <<SegText(T_hi)>>
    /\ Has(ctxByStream, "s1") /\ Has(pendingTagByStream, "s1")

\* Whether, after a callback on c, the entries that were older than their
\* TTLs when it began are gone (or replaced by entries made now).
ExpiredEvicted(c) ==
    /\ CtxExpired(c) =>
           \/ ~Has(ctxByStream', c)
           \/ ctxByStream'[c].created_at = now
    /\ TagExpired(c) =>
           \/ ~Has(pendingTagByStream', c)
           \/ pendingTagByStream'[c].ts = now

\* C30 (as claimed): each of Points A, B, C and D, invoked with the feature
\* enabled, removes the conversation's OutcomeContext when it is older than
\* 120 seconds and its PendingTag when it is older than 60 seconds.
C30_AsClaimed ==
    [][\A c \in OneStream :
        /\ \A p \in PlannerPrompts \ {<<>>} :
               (PointA(c, p) /\ enabled) => ExpiredEvicted(c)
        /\ \A p \in RelayPrompts :
               (PointB(c, p) /\ enabled) => ExpiredEvicted(c)
        /\ (PointC(c) /\ enabled) => ExpiredEvicted(c)
        /\ \A m \in DMessages :
               (PointD(c, m) /\ enabled) => ExpiredEvicted(c)]_vars

\* C30 (amended): Point B, invoked with the feature enabled and a non-empty
\* prompt, and Points C and D, invoked with the feature and the display tag
\* enabled, first remove the conversation's OutcomeContext when it is older
\* than 120 seconds and its PendingTag when it is older than 60 seconds, so
\* that what they do next meets no expired entry; Point A neither evicts nor
\* reads either dict.
C30_ReadersEvictFirst ==
    [][\A c \in OneStream :
        /\ \A p \in PlannerPrompts :
               PointA(c, p) =>
                   /\ ctxByStream' = ctxByStream
                   /\ pendingTagByStream' = pendingTagByStream
        /\ \A p \in RelayPrompts :
               (PointB(c, p) /\ enabled /\ p # <<>>) =>
                   /\ ExpiredEvicted(c)
                   /\ last'.ctxExpired = CtxExpired(c)
                   /\ last'.tagExpired = TagExpired(c)
        /\ (PointC(c) /\ enabled /\ show_roll_result) =>
               /\ ExpiredEvicted(c)
               /\ CtxExpired(c) => ~last'.ok
        /\ \A m \in DMessages :
               (PointD(c, m) /\ enabled /\ show_roll_result) =>
                   /\ ExpiredEvicted(c)
                   /\ TagExpired(c) => (~last'.ok /\ last'.outMsg = m)]_vars

\* C30 witness: Point B has met a pending tag stashed 61 seconds earlier and
\* evicted it, and Point A before it had left a context of that age alone.
C30_Witness ==
    /\ last.op = "B" /\ last.tagExpired /\ last.ok
    /\ ~Has(pendingTagByStream, "s1")
    /\ ctxByStream["s1"].created_at = now

\* Whether a prompt holds the protocol sentinel, and how many instructional
\* blocks it holds.
ContainsSentinel(text) ==
    \E i \in 1..Len(text) : text[i].k \in {"sentinel", "result_block", "protocol_block"}
CountBlocks(text) == Cardinality({i \in 1..Len(text) : text[i].k = "protocol_block"})

\* C22: Point A leaves a prompt that already holds the protocol sentinel as
\* it is, so Point A applied to the prompt an application of Point A has
\* returned appends nothing: the instructional block is there exactly once.
C22_PointAIdempotent ==
    [][\A c \in OneStream :
        /\ \A p \in PlannerPrompts \cup (IF last.op = "A" THEN {last.outMsg} ELSE {}) :
               (PointA(c, p) /\ ContainsSentinel(p)) =>
                   (last'.outMsg = p /\ ~last'.ok)
        /\ (last.op = "A" /\ last.ok /\ PointA(c, last.outMsg)) =>
               /\ last'.outMsg = last.outMsg
               /\ CountBlocks(last'.outMsg) = 1]_vars

\* C22 witness: with the feature on, Point A was handed the prompt it had
\* extended before and returned it with its one instructional block.
C22_Witness ==
    /\ enabled
    /\ last.op = "A" /\ ~last.ok
    /\ last.inMsg = <<TextLine, ProtocolBlock(TRUE)>>
    /\ last.outMsg = last.inMsg

\* A relay callback on the stream c: one of the four handlers with an input.
CallbackOn(c) ==
    \/ PointA(c, <<TextLine>>)
    \/ \E p \in StreamPrompts : PointB(c, p)
    \/ PointC(c)
    \/ \E m \in StreamMessages : PointD(c, m)

\* The entry of a dict for a key, <<>> when there is none.
EntryOf(d, k) == IF Has(d, k) THEN <<d[k]>> ELSE <<>>

\* C26: a relay callback invoked for conversation X never creates, changes or
\* removes the OutcomeContext or the PendingTag of another conversation Y.
C26_NoCrossConversationEffect ==
    [][\A x \in Streams : \A y \in Streams \ {x} :
        CallbackOn(x) =>
            /\ EntryOf(ctxByStream', y) = EntryOf(ctxByStream, y)
            /\ EntryOf(pendingTagByStream', y) = EntryOf(pendingTagByStream, y)]_vars

\* C26 witness: a Point C on s2 has evicted the expired context of s2 while
\* the context and the pending tag of s1, as old, are still stored.
C26_Witness ==
    /\ last.op = "C" /\ last.stream = "s2" /\ last.ctxExpired
    /\ ~Has(ctxByStream, "s2")
    /\ Has(ctxByStream, "s1") /\ CtxExpired("s1")
    /\ Has(pendingTagByStream, "s1") /\ TagExpired("s1")

\* A turn that fetched no window, called no evaluator and ran no derivation.
NothingRun(t) ==
    /\ tasks[t].window = {} /\ ~tasks[t].history_empty
    /\ ~tasks[t].evaluated
    /\ tasks[t].profile_runs = 0 /\ tasks[t].score_runs = 0

\* C27: a turn for which no subject can be resolved ends as rejected at its
\* first step; no ledger record is written, no window is fetched, the
\* evaluator and both derivation paths are not called, no state is kept under
\* the empty subject, and the turn is not run again: it stays rejected and
\* launches no further task.
C27_NoSubjectRejected ==
    [][\A t \in DOMAIN tasks :
        tasks[t].user_id = NoUser =>
            /\ (tasks[t].pc = "start" /\ tasks'[t] # tasks[t]) =>
                   /\ tasks'[t].pc = "done" /\ tasks'[t].outcome = "rejected"
                   /\ NothingRun(t)'
                   /\ tasks'[t].message_id = NoId
                   /\ Len(tasks') = Len(tasks)
                   /\ ledger' = ledger
                   /\ userState' = userState /\ msgState' = msgState
            /\ tasks[t].pc = "done" =>
                   /\ tasks[t].outcome = "rejected"
                   /\ tasks'[t] = tasks[t]
            /\ \A e \in ledger' : e[1] # NoUser]_vars

\* C27 witness: the turn without a subject was rejected while the window of
\* the subject U1 held an unrecorded message.
C27_Witness ==
    \E t \in DOMAIN tasks :
        /\ tasks[t].user_id = NoUser
        /\ tasks[t].pc = "done" /\ tasks[t].outcome = "rejected"
        /\ get_filtered_messages("U1", max_messages) # {}

\* C28: a turn whose (subject, message id) is already in the ledger ends as
\* skipped at its first step: no window is fetched, no id is recorded, the
\* evaluator and both derivation paths are not called and the ledger, the
\* UserState and the message-state summary stay as they are.
C28_LedgerHitSkips ==
    [][\A t \in DOMAIN tasks :
        ( /\ tasks[t].pc = "start" /\ tasks'[t] # tasks[t]
          /\ tasks[t].user_id # NoUser /\ tasks[t].content
          /\ <<tasks[t].user_id, resolve_message_id(tasks[t].m)>> \in ledger )
        => /\ tasks'[t].pc = "done" /\ tasks'[t].outcome = "skipped"
           /\ NothingRun(t)'
           /\ ledger' = ledger
           /\ userState' = userState /\ msgState' = msgState
           /\ \A x \in DOMAIN tasks : x # t => tasks'[x] = tasks[x]]_vars

\* C28 witness: a turn about a message that an earlier turn's window had
\* recorded was skipped while the window held another unrecorded message.
C28_Witness ==
    \E t \in DOMAIN tasks :
        /\ tasks[t].pc = "done" /\ tasks[t].outcome = "skipped"
        /\ <<tasks[t].user_id, tasks[t].message_id>> \in ledger
        /\ get_filtered_messages(tasks[t].user_id, max_messages) # {}

\* The payload of the marker the parser reads: the last one with braces.
LastMarker(text) ==
    LET ms == SelectSeq(text, LAMBDA l : IsMarker(l) /\ l.braces)
    IN  IF ms = <<>> THEN <<>> ELSE <<ms[Len(ms)].payload>>

Clamped(chance) == IF chance < 0 THEN 0 ELSE IF chance > 100 THEN 100 ELSE chance

Synonyms == {"ok", "pass", "passed", "success", "fail", "failed", "failure"}

\* The decision the claim expects of a payload.
DecisionAsClaimed(p, decision) ==
    /\ decision # <<>>
    /\ decision[1].chance = Clamped(p.chance)
    /\ decision[1].result =
           IF p.result.word \in {"ok", "pass", "passed", "success"}
           THEN "success" ELSE "fail"

\* C23 (as claimed): a marker with a non-empty interaction, an integer chance
\* and a result that is, case aside, a word of the synonym table parses to a
\* decision with the chance clamped to [0,100] and the result success or
\* fail; a marker with any other result, an empty or missing interaction or
\* malformed JSON parses to no decision.
C23_AsClaimed ==
    LET m == LastMarker(lastParse.text)
    IN  m # <<>> =>
            LET p == m[1]
                inTable == p.result.word \in Synonyms /\ ~p.result.pad
            IN  /\ ( /\ p.json = "dict" /\ p.interaction # <<>>
                     /\ p.chance_ok /\ inTable )
                   => DecisionAsClaimed(p, lastParse.decision)
                /\ (~inTable \/ p.interaction = <<>> \/ p.json = "malformed")
                   => lastParse.decision = <<>>

\* C23 (amended): a prompt whose last marker has an interaction that is not
\* empty once surrounding whitespace is trimmed, an integer chance and a
\* result that is, case and surrounding whitespace aside, a word of the
\* synonym table parses to a decision with the chance clamped to [0,100] and
\* the result success or fail; one with any other result, an empty,
\* whitespace-only or missing interaction or malformed JSON parses to no
\* decision.
C23_ParseNormalises ==
    LET m == LastMarker(lastParse.text)
    IN  m # <<>> =>
            LET p == m[1]
                inTable == p.result.word \in Synonyms
            IN  /\ ( /\ p.json = "dict" /\ strip(p.interaction) # <<>>
                     /\ p.chance_ok /\ inTable )
                   => /\ DecisionAsClaimed(p, lastParse.decision)
                      /\ lastParse.decision[1].interaction = strip(p.interaction)
                /\ (~inTable \/ strip(p.interaction) = <<>> \/ p.json = "malformed")
                   => lastParse.decision = <<>>

\* C23 witness: a marker with chance 101, the result " PASSED " and a padded
\* interaction was parsed to chance 100 and success.
C23_Witness ==
    /\ lastParse.text = <<TextLine, MarkerLine(TRUE, TRUE,
           Payload("dict", <<"sp", "h", "u", "g", "sp">>, TRUE, 101, TRUE, TRUE, "passed"))>>
    /\ lastParse.decision = <<[interaction |-> <<"h", "u", "g">>, chance |-> 100,
                            result |-> "success"]>>

\* A sender the administrator list does not name, or one without a platform
\* or a user id.
NotAdministrator(s) ==
    \/ s.platform = "" \/ s.user_id = ""
    \/ /\ PlatformUserId(s.platform, s.user_id) \notin permissions_admin.items
       /\ BareUserId(s.user_id) \notin permissions_admin.items

\* A management command issued by the sender s.
CommandBy(s) ==
    \/ \E u \in Users, sc \in SetScores : SetAffectionCommand(s, u, sc)
    \/ \E u \in Users : ViewImpressionCommand(s, u)
    \/ ListImpressionsCommand(s)
    \/ \E st \in {"on", "off", "status"} : ToggleActionCheckCommand(s, st)
    \/ \E st \in {"on", "off", "status"} : ToggleActionCheckShowResultCommand(s, st)

\* C29: a command of a sender who is not in the administrator list (neither
\* platform:user_id nor user_id is an entry), or whose platform or user id is
\* empty, changes no UserState and no relay toggle and sends no reply.
C29_NonAdminCommandIsSilent ==
    [][\A s \in Senders :
        (NotAdministrator(s) /\ CommandBy(s)) =>
            /\ userState' = userState
            /\ msgState' = msgState
            /\ enabled' = enabled
            /\ show_roll_result' = show_roll_result
            /\ ~lastCmd'.replied]_vars

\* C29 witness: a sender without a platform, whose bare user id is in the
\* list, asked for a set-score after an administrator had set a score, and
\* got no reply.
C29_Witness ==
    /\ lastCmd.cmd = "set" /\ lastCmd.platform = "" /\ lastCmd.user_id = "200"
    /\ ~lastCmd.replied
    /\ permissions_admin.isList
    /\ BareUserId("200") \in permissions_admin.items
    /\ Has(userState, "U1") /\ userState["U1"].score = HalfPoints(99)

\* C21: in every state each UserState score lies in [0,100] (0..200 half
\* points) and its level is the level function of its score, after any
\* sequence of Score-path increments and set-score commands; a set-score
\* command with a score outside [0,100] leaves the stored state unchanged.
C21_ScoreBoundedLevelConsistent ==
    [][/\ \A u \in DOMAIN userState' :
              /\ ScoreFloor <= userState'[u].score
              /\ userState'[u].score <= ScoreCeiling
              /\ userState'[u].level = get_affection_level(userState'[u].score)
       /\ \A s \in ScoreSenders, u \in Users, sc \in SetScores :
              (SetAffectionCommand(s, u, sc) /\ ~(0 <= sc /\ sc <= 100)) =>
                  /\ userState' = userState
                  /\ msgState' = msgState]_vars

\* C21 witness: an administrator asked for the score 101 after the Score path
\* had met the ceiling: the score set to 100 and a friendly turn left it there.
C21_Witness ==
    /\ lastCmd.cmd = "set" /\ lastCmd.arg = "101" /\ lastCmd.replied
    /\ ~lastCmd.success
    /\ Has(userState, "U1")
    /\ userState["U1"].score = ScoreCeiling
    /\ userState["U1"].message_count = 1

\* C31: when Point D (feature and display tag on) finds a PendingTag within
\* its TTL and the first text-bearing segment of the message already starts,
\* leading whitespace aside, with the tag's visible marker, it removes the
\* PendingTag and the OutcomeContext of the conversation and returns every
\* segment as it got it.
C31_MarkedMessageClearsState ==
    [][\A c \in OneStream, m \in DMessages :
        ( /\ PointD(c, m)
          /\ enabled /\ show_roll_result
          /\ Has(pendingTagByStream, c) /\ ~TagExpired(c)
          /\ first_text_segment(m) # 0
          /\ startswith(lstrip(m[first_text_segment(m)].data), <<"MK">>) )
        => /\ ~Has(pendingTagByStream', c)
           /\ ~Has(ctxByStream', c)
           /\ last'.outMsg = m
           /\ ~last'.ok
           /\ applied' = applied]_vars

\* C31 witness: Point D met a live tag and a live context with a message
\* whose first text already carried the marker, and removed both.
C31_Witness ==
    /\ last.op = "D" /\ ~last.ok /\ last.hadTag /\ last.hadCtx
    /\ last.inMsg = <<SegText(T_marked), SegText(T_hi)>>
    /\ last.outMsg = last.inMsg
    /\ ~Has(pendingTagByStream, "s1") /\ ~Has(ctxByStream, "s1")

\* C32: Point C stashes a PendingTag only when the feature and the display
\* tag are on and the conversation has an OutcomeContext within its TTL, and
\* then the tag is formatted from that context; Point C returns no message,
\* and it leaves the OutcomeContext as it is unless it evicts it by age.
C32_PointCOnlyStashes ==
    [][\A c \in OneStream :
        PointC(c) =>
            /\ ( /\ Has(pendingTagByStream', c)
                 /\ EntryOf(pendingTagByStream', c) # EntryOf(pendingTagByStream, c) )
               => /\ enabled /\ show_roll_result
                  /\ Has(ctxByStream, c) /\ ~CtxExpired(c)
                  /\ pendingTagByStream'[c].tag =
                         ExpectedTag(ctxByStream[c].chance, ctxByStream[c].result)
                  /\ last'.ok
            /\ last'.inMsg = <<>> /\ last'.outMsg = <<>>
            /\ \/ ctxByStream' = ctxByStream
               \/ /\ CtxExpired(c)
                  /\ ctxByStream' = Pop(ctxByStream, c)]_vars

\* C32 witness: Point C has stashed a tag from a context exactly 120 seconds
\* old, which is still stored as it was.
C32_Witness ==
    /\ last.op = "C" /\ last.ok
    /\ now = 120
    /\ Has(ctxByStream, "s1") /\ ctxByStream["s1"].created_at = 0
    /\ Has(pendingTagByStream, "s1") /\ pendingTagByStream["s1"].ts = 120
    /\ pendingTagByStream["s1"].tag = ExpectedTag(80, "fail")

\* C33: when Point B of a later turn succeeds while the conversation still
\* holds the context of an earlier turn whose Point C has not run, the
\* stored OutcomeContext is the later turn's decision alone, and a Point C
\* that follows, within the TTL, stashes the tag of the later decision.
C33_LastWriterWins ==
    [][\A c \in OneStream :
        /\ \A p \in RelayPrompts :
               ( /\ PointB(c, p)
                 /\ enabled /\ parse_action_check_marker(p) # <<>>
                 /\ lastOn[c] = "Bok"
                 /\ Has(ctxByStream, c) /\ ~CtxExpired(c) )
               => LET d == parse_action_check_marker(p)[1]
                  IN  ctxByStream'[c] =
                          [stream_id |-> c, interaction |-> d.interaction,
                           chance |-> d.chance, result |-> d.result,
                           created_at |-> now, decision |-> nextDecision]
        /\ ( /\ PointC(c)
             /\ enabled /\ show_roll_result
             /\ last.op = "B" /\ last.stream = c /\ last.ok
             /\ last.prev = "Bok" /\ last.hadCtx
             /\ ~CtxExpired(c) )
           => LET d == parse_action_check_marker(last.inMsg)[1]
              IN  /\ Has(pendingTagByStream', c)
                  /\ pendingTagByStream'[c].tag = ExpectedTag(d.chance, d.result)
                  /\ pendingTagByStream'[c].decision = nextDecision - 1
                  /\ ctxByStream'[c].chance = d.chance
                  /\ ctxByStream'[c].result = d.result]_vars

\* C33 witness: decision 1 (80, fail) was overwritten by decision 2 (100,
\* success) before any Point C, and Point C then stashed the tag of
\* decision 2; decision 1 was never prepended.
C33_Witness ==
    /\ last.op = "C" /\ last.ok /\ last.prev = "Bok" /\ ~last.hadTag
    /\ now = 0
    /\ nextDecision = 3
    /\ applied[1] = 0
    /\ ctxByStream["s1"].decision = 2
    /\ pendingTagByStream["s1"].decision = 2
    /\ pendingTagByStream["s1"].tag = ExpectedTag(100, "success")

\* A message Point D finds nothing to prefix in: no segment at all, or none
\* that bears text.
NoTextToPrefix(m) == \A i \in 1..Len(m) : ~(m[i].type = "text" /\ m[i].isStr)

\* C35 (as claimed): when Point D (feature and display tag on) runs with a
\* PendingTag within its TTL and a message without segments or without a
\* text-bearing segment, the message and both relay dicts are unchanged.
C35_AsClaimed ==
    [][\A c \in OneStream, m \in DMessages :
        ( /\ PointD(c, m)
          /\ enabled /\ show_roll_result
          /\ Has(pendingTagByStream, c) /\ ~TagExpired(c)
          /\ NoTextToPrefix(m) )
        => /\ last'.outMsg = m
           /\ pendingTagByStream' = pendingTagByStream
           /\ ctxByStream' = ctxByStream]_vars

\* C35 (amended): in that case the message and the PendingTag are unchanged
\* and the OutcomeContext is unchanged unless it is older than its TTL, when
\* it is evicted; a later Point D on the conversation that finds the tag
\* still within its TTL and a text to prefix prepends that tag.
C35_NothingToPrefixKeepsTag ==
    [][\A c \in OneStream, m \in DMessages :
        /\ ( /\ PointD(c, m)
             /\ enabled /\ show_roll_result
             /\ Has(pendingTagByStream, c) /\ ~TagExpired(c)
             /\ NoTextToPrefix(m) )
           => /\ last'.outMsg = m /\ ~last'.ok
              /\ applied' = applied
              /\ pendingTagByStream' = pendingTagByStream
              /\ ctxByStream' =
                     IF CtxExpired(c) THEN Pop(ctxByStream, c) ELSE ctxByStream
        /\ ( /\ PointD(c, m)
             /\ enabled /\ show_roll_result
             /\ last.op = "D" /\ last.stream = c /\ last.hadTag
             /\ NoTextToPrefix(last.inMsg)
             /\ Has(pendingTagByStream, c) /\ ~TagExpired(c)
             /\ first_text_segment(m) # 0
             /\ ~startswith(lstrip(m[first_text_segment(m)].data), <<"MK">>) )
           => /\ last'.ok
              /\ last'.outMsg[first_text_segment(m)].data =
                     rstrip(pendingTagByStream[c].tag \o <<"sp">>
                                \o m[first_text_segment(m)].data)
              /\ ~Has(pendingTagByStream', c)]_vars

\* C35 witness: a Point D handed an image alone had left the tag stored, and
\* the next Point D, 60 seconds after the stash, prepended it.
C35_Witness ==
    /\ last.op = "D" /\ last.ok /\ last.prev = "other" /\ last.hadTag
    /\ last.inMsg = <<SegText(T_hi)>>
    /\ now = 60
    /\ \E d \in DOMAIN applied : applied[d] = 1

\* C36: when the configured filter mode is none of disabled, selective and
\* balanced, the gate is closed for every turn whatever the evaluator
\* returned: no task is ever in the Profile path, none has run the profile
\* derivation, and no profile has been written.
C36_UnknownModeRejectsAll ==
    filter_mode \notin {"disabled", "selective", "balanced"}
    => /\ \A t \in DOMAIN tasks :
              /\ ~tasks[t].should_update_impression
              /\ tasks[t].pc # "profile"
              /\ tasks[t].profile_runs = 0
              /\ ~tasks[t].impression_updated

\* C36 witness: under the mode "strict" a turn with a non-empty window was
\* scored 70 by the evaluator and its task has gone on to the Score path
\* without the profile derivation.
C36_Witness ==
    /\ filter_mode = "strict"
    /\ \E t \in DOMAIN tasks :
           /\ tasks[t].pc = "score" /\ ~tasks[t].history_empty
           /\ tasks[t].weight_success /\ tasks[t].weight_score = 70
           /\ tasks[t].score_runs = 1 /\ tasks[t].profile_runs = 0

\* The step in which task t comes back from the evaluator, is let through
\* the gate and fetches the window again (lines 602-647).
Refetch(t) ==
    /\ tasks[t].pc = "eval" /\ tasks'[t].pc = "profile"
    /\ \E r \in EvalResults : EvalReturn(t, r)

\* No turn was stored between the first fetch of task t and now.
NoNewTurn(t) == DOMAIN dbMessages = seen[t].stored

\* C34 (as claimed): the re-fetched window contains no id of the first
\* window, and when no new turn arrived between the two fetches the profile
\* derivation is invoked with an empty context.
C34_AsClaimed ==
    [][\A t \in DOMAIN tasks :
        Refetch(t)
        => /\ tasks'[t].latest \cap tasks'[t].window = {}
           /\ NoNewTurn(t) => tasks'[t].latest = {}]_vars

\* C34 (amended): the re-fetched window contains no id of the first window;
\* when no new turn arrived between the two fetches and the first window
\* held every unprocessed qualifying turn of the subject, the profile
\* derivation is invoked with an empty context.
C34_RefetchExcludesFirstWindow ==
    [][\A t \in DOMAIN tasks :
        Refetch(t)
        => /\ tasks'[t].profile_runs = 1
           /\ tasks'[t].latest \cap tasks'[t].window = {}
           /\ (NoNewTurn(t) /\ seen[t].unprocessed \subseteq tasks[t].window)
                  => tasks'[t].latest = {}]_vars

\* C34 witness: with a window of one turn, a task whose first window held the
\* only stored turn is in the profile derivation with an empty context, and
\* no turn has arrived since its first fetch.
C34_Witness ==
    /\ max_messages = 1
    /\ \E t \in DOMAIN tasks :
           /\ tasks[t].pc = "profile" /\ tasks[t].profile_runs = 1
           /\ tasks[t].window = {MainId(1)} /\ seen[t].unprocessed = {MainId(1)}
           /\ tasks[t].latest = {}
           /\ NoNewTurn(t)

=============================================================================
